---------------------------- MODULE Spec2Model ----------------------------
(***************************************************************************)
(* Valuation core of the stock fundamental analysis tool:                  *)
(*   - lib/valuation/dcf.ts               validateScenarioInput, runDcf    *)
(*   - lib/valuation/scenario-presets.ts  getCompanyScenarios,             *)
(*                                        getDefaultScenarios              *)
(*   - app/api/valuation/[ticker]/route.ts  POST, getStatus                *)
(*   - lib/yahoo-client.ts                withRetry, the mapping of a quote *)
(*                                                                         *)
(* Numbers.  The code computes with IEEE-754 doubles.  The model keeps the *)
(* shape of that number system at a small size: a finite number is an      *)
(* integer count of 1/Scale units (0.095 is 95 when Scale = 1000), every   *)
(* operation rounds its exact result to the nearest unit (ties to even), a *)
(* result beyond MaxFloat units overflows to +Infinity or -Infinity, and   *)
(* the invalid operations (0/0, Inf-Inf, 0*Inf) give NaN.  Comparisons     *)
(* with NaN are false.  Signed zero is not modelled.                       *)
(***************************************************************************)
EXTENDS Integers, Sequences, FiniteSets, TLC

\* Units per 1.0: the resolution of a modelled number.
Scale ==
    1000

\* Largest finite magnitude, in units (the model's Number.MAX_VALUE).
MaxFloat ==
    2000000

PInf ==
    MaxFloat + 1

NInf ==
    -(MaxFloat + 1)

NaN ==
    MaxFloat + 2

\* The value null of a nullable field ("number | null").
Null ==
    MaxFloat + 3

\* k thousandths as a number: Milli(95) is 0.095.
Milli(k) ==
    k * (Scale \div 1000)

\* The whole number n as a number: Whole(10) is 10.0.
Whole(n) ==
    n * Scale

Abs(x) ==
    IF x < 0 THEN -x ELSE x

IsNaN(x) ==
    x = NaN

\* Number.isFinite
IsFinite(x) ==
    x # NaN /\ x # Null /\ x >= -MaxFloat /\ x <= MaxFloat

IsInf(x) ==
    x = PInf \/ x = NInf

\* The sign of a non-NaN number as -1, 0 or 1.
Sgn(x) ==
    IF x > 0 THEN 1 ELSE IF x < 0 THEN -1 ELSE 0

\* An exact integer result brought back into the number system (overflow).
Norm(x) ==
    IF x > MaxFloat THEN PInf ELSE IF x < -MaxFloat THEN NInf ELSE x

\* n / d for n >= 0, d > 0, rounded to the nearest integer, ties to even.
RoundDivPos(n, d) ==
    LET q == n \div d
        r == n - q * d
    IN  IF 2 * r < d THEN q
        ELSE IF 2 * r > d THEN q + 1
        ELSE IF q % 2 = 0 THEN q ELSE q + 1

\* a < b, a <= b, a > b (false when either side is NaN).
Lt(a, b) ==
    a # NaN /\ b # NaN /\ a < b

Le(a, b) ==
    a # NaN /\ b # NaN /\ a <= b

Gt(a, b) ==
    Lt(b, a)

Neg(a) ==
    IF a = NaN THEN NaN ELSE -a

\* a + b
Add(a, b) ==
    IF a = NaN \/ b = NaN THEN NaN
    ELSE IF IsInf(a) /\ IsInf(b) THEN (IF a = b THEN a ELSE NaN)
    ELSE IF IsInf(a) THEN a
    ELSE IF IsInf(b) THEN b
    ELSE Norm(a + b)

\* a - b
Sub(a, b) ==
    Add(a, Neg(b))

\* a * b
Mul(a, b) ==
    IF a = NaN \/ b = NaN THEN NaN
    ELSE IF IsInf(a) \/ IsInf(b)
         THEN (IF a = 0 \/ b = 0 THEN NaN
               ELSE IF Sgn(a) * Sgn(b) > 0 THEN PInf ELSE NInf)
    ELSE IF a = 0 \/ b = 0 THEN 0
    ELSE IF Abs(a) > ((MaxFloat + 1) * Scale) \div Abs(b)
         THEN (IF Sgn(a) * Sgn(b) > 0 THEN PInf ELSE NInf)
    ELSE Norm(Sgn(a) * Sgn(b) * RoundDivPos(Abs(a) * Abs(b), Scale))

\* a / b
Div(a, b) ==
    IF a = NaN \/ b = NaN THEN NaN
    ELSE IF IsInf(a) /\ IsInf(b) THEN NaN
    ELSE IF IsInf(a) THEN (IF Sgn(a) * Sgn(b) >= 0 THEN (IF b = 0 THEN a ELSE PInf) ELSE NInf)
    ELSE IF IsInf(b) THEN 0
    ELSE IF b = 0 THEN (IF a = 0 THEN NaN ELSE IF a > 0 THEN PInf ELSE NInf)
    ELSE Norm(Sgn(a) * Sgn(b) * RoundDivPos(Abs(a) * Scale, Abs(b)))

\* Math.max, Math.min
MathMax(a, b) ==
    IF a = NaN \/ b = NaN THEN NaN ELSE IF a >= b THEN a ELSE b

MathMin(a, b) ==
    IF a = NaN \/ b = NaN THEN NaN ELSE IF a <= b THEN a ELSE b

\* base ** n for a whole n >= 0.
RECURSIVE Pow(_, _)
Pow(base, n) ==
    IF n = 0 THEN Whole(1) ELSE Mul(Pow(base, n - 1), base)

\* a ?? b
Coalesce(a, b) ==
    IF a # Null THEN a ELSE b

-----------------------------------------------------------------------------
(* dcf.ts *)

ScenarioFields ==
    {"revenueGrowthYears1to5", "revenueGrowthYears6to10", "operatingMarginTarget",
     "taxRate", "reinvestmentRate", "wacc", "terminalGrowth"}

\* The table "bounded" of validateScenarioInput, in its order.
Bounded(scenario) ==
    << <<scenario.revenueGrowthYears1to5, Milli(-500), Milli(600), "Revenue growth years 1-5">>,
       <<scenario.revenueGrowthYears6to10, Milli(-500), Milli(400), "Revenue growth years 6-10">>,
       <<scenario.operatingMarginTarget, 0, Milli(800), "Operating margin target">>,
       <<scenario.taxRate, 0, Milli(600), "Tax rate">>,
       <<scenario.reinvestmentRate, 0, Milli(900), "Reinvestment rate">>,
       <<scenario.wacc, Milli(30), Milli(300), "WACC">>,
       <<scenario.terminalGrowth, Milli(-20), Milli(60), "Terminal growth">> >>

\* A faulty test of a row, which rejects the bounds themselves.
OutOfRangeInclusive(row) ==
    Le(row[1], row[2]) \/ Le(row[3], row[1])

\* The test of one row of the table: value < min || value > max.
OutOfRange(row) ==
    Lt(row[1], row[2]) \/ Gt(row[1], row[3])

\* What a call ends with when it throws: the Error's message, as the text that
\* does not vary, and for an out-of-range error the bounds it prints.
Thrown(message, min, max) ==
    [error |-> message, min |-> min, max |-> max]

\* A call of validateScenarioInput that returns.
NoError ==
    Thrown("none", 0, 0)

WaccError ==
    Thrown("WACC must be greater than terminal growth.", 0, 0)

PositiveError ==
    Thrown("Revenue, shares outstanding, and current price must be positive.", 0, 0)

\* `${label} must be between ${min} and ${max}.`
RangeError(row) ==
    Thrown(row[4], row[2], row[3])

\* A faulty loop over the table, which walks it from its last row to its first.
RECURSIVE CheckBoundedBackwards(_, _)
CheckBoundedBackwards(bounded, i) ==
    IF i > Len(bounded) THEN NoError
    ELSE IF OutOfRange(bounded[Len(bounded) + 1 - i])
         THEN RangeError(bounded[Len(bounded) + 1 - i])
    ELSE CheckBoundedBackwards(bounded, i + 1)

\* The loop over the table from row i on: the error of the first row out of
\* range, or NoError.
RECURSIVE CheckBounded(_, _)
CheckBounded(bounded, i) ==
    IF i > Len(bounded) THEN NoError
    ELSE IF OutOfRange(bounded[i]) THEN RangeError(bounded[i])
    ELSE CheckBounded(bounded, i + 1)

\* A faulty validateScenarioInput, which checks the ranges before the WACC relation.
ValidateRangesFirst(scenario) ==
    IF CheckBounded(Bounded(scenario), 1) # NoError THEN CheckBounded(Bounded(scenario), 1)
    ELSE IF Le(scenario.wacc, scenario.terminalGrowth) THEN WaccError
    ELSE NoError

\* A faulty validateScenarioInput, which lets wacc equal to terminalGrowth through.
ValidateWaccBelowOnly(scenario) ==
    IF Lt(scenario.wacc, scenario.terminalGrowth) THEN WaccError
    ELSE CheckBounded(Bounded(scenario), 1)

\* validateScenarioInput: NoError, or the Error thrown.
ValidateScenarioInput(scenario) ==
    IF Le(scenario.wacc, scenario.terminalGrowth) THEN WaccError
    ELSE CheckBounded(Bounded(scenario), 1)

\* A ScenarioInput, fields in the order of types/valuation.ts.
Scn(g1, g6, margin, tax, reinvestment, wacc, terminalGrowth) ==
    [revenueGrowthYears1to5 |-> g1, revenueGrowthYears6to10 |-> g6,
     operatingMarginTarget |-> margin, taxRate |-> tax,
     reinvestmentRate |-> reinvestment, wacc |-> wacc,
     terminalGrowth |-> terminalGrowth]

\* Years of explicit projection (the loop of runDcf) and of the first phase.
ProjectionYears ==
    10

EarlyYears ==
    5

\* A faulty check of the market inputs, which lets zero through.
MarketInputNegative(in) ==
    Lt(in.currentRevenue, 0) \/ Lt(in.sharesOutstanding, 0) \/ Lt(in.currentPrice, 0)

\* currentRevenue <= 0 || sharesOutstanding <= 0 || currentPrice <= 0
MarketInputInvalid(in) ==
    Le(in.currentRevenue, 0) \/ Le(in.sharesOutstanding, 0) \/ Le(in.currentPrice, 0)

\* A faulty choice of the growth, which puts year 5 in the second phase.
GrowthBeforeYearFive(scenario, y) ==
    IF y < EarlyYears THEN scenario.revenueGrowthYears1to5
    ELSE scenario.revenueGrowthYears6to10

\* The growth the loop applies in a year.
GrowthOfYear(scenario, y) ==
    IF y <= EarlyYears THEN scenario.revenueGrowthYears1to5
    ELSE scenario.revenueGrowthYears6to10

\* ebit, nopat and fcf of a year from the year's revenue.
\* A faulty free cash flow, which subtracts the reinvestment rate from nopat.
FcfSubtractingRate(rev, scenario) ==
    LET ebit  == Mul(rev, scenario.operatingMarginTarget)
        nopat == Mul(ebit, Sub(Whole(1), scenario.taxRate))
    IN  Sub(nopat, scenario.reinvestmentRate)

FcfOf(rev, scenario) ==
    LET ebit  == Mul(rev, scenario.operatingMarginTarget)
        nopat == Mul(ebit, Sub(Whole(1), scenario.taxRate))
    IN  Mul(nopat, Sub(Whole(1), scenario.reinvestmentRate))

\* (1 + wacc) ** year
DiscountFactor(scenario, y) ==
    Pow(Add(Whole(1), scenario.wacc), y)

\* The divisor of the Gordon Growth formula.
TerminalDivisor(scenario) ==
    Sub(scenario.wacc, scenario.terminalGrowth)

\* Step 2 of runDcf: the discounted terminal value from the year-10 revenue.
DiscountedTerminal(rev, scenario) ==
    LET terminalYearFcf == FcfOf(rev, scenario)
        terminalFcf     == Mul(terminalYearFcf, Add(Whole(1), scenario.terminalGrowth))
        terminalValue   == Div(terminalFcf, TerminalDivisor(scenario))
    IN  Div(terminalValue, DiscountFactor(scenario, ProjectionYears))

\* A faulty margin factor, which brings mosPercent into [0, 80] first.
MosFactorClamped(mosPercent) ==
    Sub(Whole(1), Div(MathMax(0, MathMin(Whole(80), mosPercent)), Whole(100)))

\* A faulty margin factor, which takes the percentage for a fraction.
MosFactorOfFraction(mosPercent) ==
    Sub(Whole(1), mosPercent)

\* 1 - mosPercent / 100
MosFactor(mosPercent) ==
    Sub(Whole(1), Div(mosPercent, Whole(100)))

\* Steps 3 to 5 of runDcf: the ScenarioResult from the loop's revenue and sum.
ResultOf(in, rev, sum) ==
    LET enterpriseValue   == Add(sum, DiscountedTerminal(rev, in.scenario))
        equityValue       == Sub(enterpriseValue, in.netDebt)
        fairValuePerShare == Div(equityValue, in.sharesOutstanding)
        fairValueAfterMos == Mul(fairValuePerShare, MosFactor(in.mosPercent))
    IN  [enterpriseValue      |-> enterpriseValue,
         equityValue          |-> equityValue,
         fairValuePerShare    |-> fairValuePerShare,
         fairValueAfterMos    |-> fairValueAfterMos,
         upsideVsPricePercent |->
             Mul(Div(Sub(fairValueAfterMos, in.currentPrice), in.currentPrice), Whole(100))]

\* No ScenarioResult: the call threw, or has not returned yet.
NoResult ==
    [enterpriseValue |-> Null, equityValue |-> Null, fairValuePerShare |-> Null,
     fairValueAfterMos |-> Null, upsideVsPricePercent |-> Null]

\* The divisors of the divisions runDcf makes after the loop.
FinalDivisors(in) ==
    {TerminalDivisor(in.scenario), DiscountFactor(in.scenario, ProjectionYears),
     in.sharesOutstanding, Whole(100), in.currentPrice}

\* The loop of runDcf from year y on: the revenue of year 10 and the sum of the
\* discounted free cash flows.
RECURSIVE Projection(_, _, _, _)
Projection(in, y, rev, sum) ==
    IF y > ProjectionYears THEN <<rev, sum>>
    ELSE LET grown == Mul(rev, Add(Whole(1), GrowthOfYear(in.scenario, y)))
         IN  Projection(in, y + 1, grown,
                        Add(sum, Div(FcfOf(grown, in.scenario),
                                     DiscountFactor(in.scenario, y))))

\* runDcf(in) as its caller sees it: what it throws, or what it returns.
RunDcf(in) ==
    IF ValidateScenarioInput(in.scenario) # NoError
    THEN [thrown |-> ValidateScenarioInput(in.scenario), result |-> NoResult]
    ELSE IF MarketInputInvalid(in)
    THEN [thrown |-> PositiveError, result |-> NoResult]
    ELSE LET loop == Projection(in, 1, in.currentRevenue, 0)
         IN  [thrown |-> NoError, result |-> ResultOf(in, loop[1], loop[2])]

-----------------------------------------------------------------------------
(* route.ts and the mapping of yahoo-client.ts *)

\* z.number().min(lo).max(hi)
NumberBetween(x, lo, hi) ==
    IsFinite(x) /\ x >= lo /\ x <= hi

\* scenarioSchema
ScenarioSchema(scenario) ==
    /\ NumberBetween(scenario.revenueGrowthYears1to5, Milli(-500), Milli(600))
    /\ NumberBetween(scenario.revenueGrowthYears6to10, Milli(-500), Milli(400))
    /\ NumberBetween(scenario.operatingMarginTarget, 0, Milli(800))
    /\ NumberBetween(scenario.taxRate, 0, Milli(600))
    /\ NumberBetween(scenario.reinvestmentRate, 0, Milli(900))
    /\ NumberBetween(scenario.wacc, Milli(30), Milli(300))
    /\ NumberBetween(scenario.terminalGrowth, Milli(-20), Milli(60))

\* A faulty requestSchema, which leaves mosPercent unchecked.
RequestSchemaWithoutMos(payload) ==
    /\ \/ payload.sharesOutstandingOverride = Null
       \/ IsFinite(payload.sharesOutstandingOverride) /\ payload.sharesOutstandingOverride > 0
    /\ ScenarioSchema(payload.scenarios.bull)
    /\ ScenarioSchema(payload.scenarios.base)
    /\ ScenarioSchema(payload.scenarios.bear)

\* requestSchema; an absent sharesOutstandingOverride is Null.
RequestSchema(payload) ==
    /\ NumberBetween(payload.mosPercent, 0, Whole(80))
    /\ \/ payload.sharesOutstandingOverride = Null
       \/ IsFinite(payload.sharesOutstandingOverride) /\ payload.sharesOutstandingOverride > 0
    /\ ScenarioSchema(payload.scenarios.bull)
    /\ ScenarioSchema(payload.scenarios.base)
    /\ ScenarioSchema(payload.scenarios.bear)

\* A faulty getStatus, whose thresholds belong to the outer classes.
GetStatusInclusive(baseUpsideAfterMos) ==
    IF Gt(baseUpsideAfterMos, Whole(15)) \/ baseUpsideAfterMos = Whole(15) THEN "undervalued"
    ELSE IF Lt(baseUpsideAfterMos, Whole(-15)) \/ baseUpsideAfterMos = Whole(-15)
         THEN "overvalued"
    ELSE "fair"

\* getStatus
GetStatus(baseUpsideAfterMos) ==
    IF Gt(baseUpsideAfterMos, Whole(15)) THEN "undervalued"
    ELSE IF Lt(baseUpsideAfterMos, Whole(-15)) THEN "overvalued"
    ELSE "fair"

\* The two fields of getQuote's return value that POST reads, from the quote
\* of Yahoo: "Number(quote.regularMarketPrice || 0)", and sharesOutstanding
\* when it is a finite number, else null.
QuoteOf(raw) ==
    [regularMarketPrice |-> IF raw.regularMarketPrice \in {Null, NaN, 0} THEN 0
                            ELSE raw.regularMarketPrice,
     sharesOutstanding  |-> IF IsFinite(raw.sharesOutstanding) THEN raw.sharesOutstanding
                            ELSE Null]

\* The messages of the errors the three fetches reject with.
RateLimitMessage ==
    "Yahoo Finance rate limit reached. Retry in 30-60 seconds."

TickerNotFoundMessage ==
    "Ticker not found or unavailable on Yahoo Finance."

\* message.toLowerCase().includes("rate limit"), on the messages of the model.
MentionsRateLimit(message) ==
    message = RateLimitMessage

\* The responses of POST: the status, the error of the body (NoError with
\* status 200) and summary.status ("" without a summary).
Response(status, error, summaryStatus) ==
    [status |-> status, error |-> error, summaryStatus |-> summaryStatus]

NoResponse ==
    Response(0, NoError, "")

\* The catch block of POST on an Error that is no ZodError.
ErrorResponse(error) ==
    Response(IF MentionsRateLimit(error.error) THEN 503 ELSE 400, error, "")

\* "payload.sharesOutstandingOverride ?? quote.sharesOutstanding"
SharesOutstandingOf(payload, quote) ==
    Coalesce(payload.sharesOutstandingOverride, quote.sharesOutstanding)

\* The DcfInput POST builds for one scenario.
RouteDcfInput(payload, fetched, name) ==
    [currentRevenue    |-> fetched.annual[1].revenue,
     netDebt           |-> fetched.netDebt,
     sharesOutstanding |-> SharesOutstandingOf(payload, fetched.quote),
     currentPrice      |-> fetched.quote.regularMarketPrice,
     mosPercent        |-> payload.mosPercent,
     scenario          |-> payload.scenarios[name]]

\* The order in which POST evaluates the three calls of runDcf.
ScenarioOrder ==
    <<"bull", "base", "bear">>

\* How many of the three calls of runDcf POST makes: all of them, or those up
\* to the first that throws.
RunDcfCalls(payload, fetched) ==
    IF RunDcf(RouteDcfInput(payload, fetched, "bull")).thrown # NoError THEN 1
    ELSE IF RunDcf(RouteDcfInput(payload, fetched, "base")).thrown # NoError THEN 2
    ELSE 3

\* The error of the first call of runDcf that throws, or NoError.
RunDcfThrown(payload, fetched) ==
    RunDcf(RouteDcfInput(payload, fetched, ScenarioOrder[RunDcfCalls(payload, fetched)])).thrown

\* POST's local "scenarios".
RouteResults(payload, fetched) ==
    [name \in {"bull", "base", "bear"} |-> RunDcf(RouteDcfInput(payload, fetched, name)).result]

\* `Invalid output for ${name} scenario.`
InvalidOutputMessage ==
    [bull |-> "Invalid output for bull scenario.",
     base |-> "Invalid output for base scenario.",
     bear |-> "Invalid output for bear scenario."]

\* The sanity check of POST: the response for the first scenario whose
\* fairValueAfterMos is not finite, from position i of the order on.
RECURSIVE SanityCheck(_, _)
SanityCheck(results, i) ==
    IF i > Len(ScenarioOrder) THEN NoResponse
    ELSE IF ~IsFinite(results[ScenarioOrder[i]].fairValueAfterMos)
         THEN Response(422, Thrown(InvalidOutputMessage[ScenarioOrder[i]], 0, 0), "")
    ELSE SanityCheck(results, i + 1)

-----------------------------------------------------------------------------
(* scenario-presets.ts *)

\* What reading a property of undefined gives: a TypeError is thrown.
TypeErr ==
    MaxFloat + 4

\* The object literal getDefaultScenarios returns.
GetDefaultScenarios ==
    [bull |-> Scn(Milli(120), Milli(80), Milli(220), Milli(200), Milli(300),
                  Milli(85), Milli(30)),
     base |-> Scn(Milli(80), Milli(50), Milli(180), Milli(220), Milli(350),
                  Milli(95), Milli(25)),
     bear |-> Scn(Milli(40), Milli(20), Milli(140), Milli(250), Milli(400),
                  Milli(110), Milli(20))]

\* A faulty clamp, without its upper bound.
ClampWithoutMax(value, min, max) ==
    MathMax(min, value)

\* clamp(value, min, max)
Clamp(value, min, max) ==
    MathMin(max, MathMax(min, value))

\* The largest r in lo..hi with r ** n <= x, given lo ** n <= x.
RECURSIVE RootSearch(_, _, _, _)
RootSearch(x, n, lo, hi) ==
    IF lo >= hi THEN lo
    ELSE LET mid == (lo + hi + 1) \div 2
         IN  IF Pow(mid, n) <= x THEN RootSearch(x, n, mid, hi)
             ELSE RootSearch(x, n, lo, mid - 1)

\* Math.pow(x, 1 / years) for x >= 0 and a whole years >= 0; 1 / 0 is Infinity.
PowInverse(x, years) ==
    IF x = NaN THEN NaN
    ELSE IF years = 0
         THEN (IF x = Whole(1) THEN NaN ELSE IF x > Whole(1) THEN PInf ELSE 0)
    ELSE IF x = PInf THEN PInf
    ELSE RootSearch(x, years, 0, IF x > Whole(1) THEN x ELSE Whole(1))

\* A faulty computeRevenueCAGR, without its guard on the length of the list.
NoLengthGuard(annual) ==
    FALSE

\* annual.length < 2
TooFewPoints(annual) ==
    Len(annual) < 2

\* computeRevenueCAGR: the rate, Null, or TypeErr when annual[0] is undefined.
ComputeRevenueCAGR(annual) ==
    IF TooFewPoints(annual) THEN Null
    ELSE IF Len(annual) = 0 THEN TypeErr
    ELSE LET endRevenue   == annual[1].revenue
             startRevenue == annual[Len(annual)].revenue
             years        == Len(annual) - 1
         IN  IF Le(startRevenue, 0) \/ Le(endRevenue, 0) THEN Null
             ELSE Sub(PowInverse(Div(endRevenue, startRevenue), years), Whole(1))

\* The test of deriveEffectiveTaxRate's loop.
Profitable(point) ==
    Gt(point.ebit, 0) /\ Gt(point.netIncome, 0)

\* deriveEffectiveTaxRate, scanning from index i.
\* A faulty loop of deriveEffectiveTaxRate, which clamps the rate to the range
\* of the engine, [0, 0.6].
RECURSIVE TaxRateFromEngineRange(_, _)
TaxRateFromEngineRange(annual, i) ==
    IF i > Len(annual) THEN Null
    ELSE IF Profitable(annual[i])
         THEN Clamp(Sub(Whole(1), Div(annual[i].netIncome, annual[i].ebit)),
                    0, Milli(600))
    ELSE TaxRateFromEngineRange(annual, i + 1)

RECURSIVE TaxRateFrom(_, _)
TaxRateFrom(annual, i) ==
    IF i > Len(annual) THEN Null
    ELSE IF Profitable(annual[i])
         THEN Clamp(Sub(Whole(1), Div(annual[i].netIncome, annual[i].ebit)),
                    Milli(100), Milli(400))
    ELSE TaxRateFrom(annual, i + 1)

\* A faulty deriveEffectiveTaxRate, which looks at the newest point only.
TaxRateOfNewestPoint(annual) ==
    IF Len(annual) >= 1 /\ Profitable(annual[1])
    THEN Clamp(Sub(Whole(1), Div(annual[1].netIncome, annual[1].ebit)),
               Milli(100), Milli(400))
    ELSE Null

DeriveEffectiveTaxRate(annual) ==
    TaxRateFrom(annual, 1)

\* A faulty nopat of a historical point, with the flat 22% for every point.
PointNopatFlatTax(point) ==
    Mul(point.ebit, Sub(Whole(1), Milli(220)))

\* The nopat of one historical point, as deriveReinvestmentRate computes it.
PointNopat(point) ==
    Mul(point.ebit,
        Sub(Whole(1), IF Profitable(point)
                      THEN Sub(Whole(1), Div(point.netIncome, point.ebit))
                      ELSE Milli(220)))

\* The fallback loop of deriveReinvestmentRate, scanning from index i.
RECURSIVE HistoricalReinvestmentFrom(_, _)
HistoricalReinvestmentFrom(annual, i) ==
    IF i > Len(annual) THEN Null
    ELSE IF Gt(PointNopat(annual[i]), 0) /\ annual[i].fcf # 0
         THEN Clamp(Sub(Whole(1), Div(annual[i].fcf, PointNopat(annual[i]))),
                    Milli(50), Milli(700))
    ELSE HistoricalReinvestmentFrom(annual, i + 1)

\* currentNopat of deriveReinvestmentRate (the three estimates are not null).
CurrentNopat(annual, estimates) ==
    LET currentEbit  == Mul(estimates.totalRevenue, estimates.operatingMargins)
        effectiveTax == Coalesce(DeriveEffectiveTaxRate(annual), Milli(220))
    IN  Mul(currentEbit, Sub(Whole(1), effectiveTax))

\* The condition of deriveReinvestmentRate's first "if".
HasCurrentFcf(estimates) ==
    /\ estimates.freeCashflow # Null
    /\ estimates.totalRevenue # Null
    /\ estimates.operatingMargins # Null

\* A faulty deriveReinvestmentRate, which knows the historical points only.
ReinvestmentFromHistoryOnly(annual, estimates) ==
    HistoricalReinvestmentFrom(annual, 1)

DeriveReinvestmentRate(annual, estimates) ==
    IF HasCurrentFcf(estimates) /\ Gt(CurrentNopat(annual, estimates), 0)
    THEN Clamp(Sub(Whole(1), Div(estimates.freeCashflow, CurrentNopat(annual, estimates))),
               Milli(50), Milli(700))
    ELSE HistoricalReinvestmentFrom(annual, 1)

\* A faulty chain for the growth, with || for ??: an estimate of 0 counts as
\* missing.
BaseGrowthSkippingZero(annual, estimates) ==
    IF estimates.revenueGrowth5Year \notin {Null, 0} THEN estimates.revenueGrowth5Year
    ELSE IF estimates.revenueGrowthNextYear \notin {Null, 0}
         THEN estimates.revenueGrowthNextYear
    ELSE IF ComputeRevenueCAGR(annual) \notin {Null, 0} THEN ComputeRevenueCAGR(annual)
    ELSE IF estimates.revenueGrowthTTM \notin {Null, 0} THEN estimates.revenueGrowthTTM
    ELSE Milli(50)

\* baseGrowthY1to5: the ?? chain, which calls computeRevenueCAGR only when the
\* two analyst estimates before it are null.  TypeErr when that call throws.
BaseGrowthY1to5(annual, estimates) ==
    IF estimates.revenueGrowth5Year # Null THEN estimates.revenueGrowth5Year
    ELSE IF estimates.revenueGrowthNextYear # Null THEN estimates.revenueGrowthNextYear
    ELSE IF ComputeRevenueCAGR(annual) # Null THEN ComputeRevenueCAGR(annual)
    ELSE Coalesce(estimates.revenueGrowthTTM, Milli(50))

\* A faulty latestMargin, which is null when there are three points or more.
LatestMarginWhenShort(annual) ==
    IF Len(annual) >= 1 /\ Len(annual) < 3 THEN annual[1].operatingMargin ELSE Null

\* annual[0]?.operatingMargin ?? null
LatestMargin(annual) ==
    IF Len(annual) >= 1 THEN annual[1].operatingMargin ELSE Null

\* avgMargin3yr
AvgMargin3yr(annual) ==
    IF Len(annual) >= 3
    THEN Div(Add(Add(Add(0, annual[1].operatingMargin), annual[2].operatingMargin),
                 annual[3].operatingMargin), Whole(3))
    ELSE Null

\* A faulty baseMargin, which prefers the average to the latest margin.
BaseMarginAverageFirst(annual, estimates) ==
    Coalesce(estimates.operatingMargins,
             Coalesce(AvgMargin3yr(annual), Coalesce(LatestMargin(annual), Milli(180))))

\* baseMargin
BaseMargin(annual, estimates) ==
    Coalesce(estimates.operatingMargins,
             Coalesce(LatestMargin(annual), Coalesce(AvgMargin3yr(annual), Milli(180))))

\* A faulty baseWacc, with the literal of baseTerminalGrowth.
BaseWaccOfTerminalGrowth ==
    Milli(25)

BaseWacc ==
    Milli(95)

BaseTerminalGrowth ==
    Milli(25)

\* A faulty "base", whose growth of the years 6-10 fades the clamped growth of
\* the years 1-5 instead of the unclamped one.
BaseScenarioFadingClamped(annual, estimates) ==
    LET growthY1to5 == Clamp(BaseGrowthY1to5(annual, estimates), Milli(-500), Milli(600))
    IN  Scn(growthY1to5,
            Clamp(Mul(growthY1to5, Milli(600)), Milli(-500), Milli(400)),
            Clamp(BaseMargin(annual, estimates), 0, Milli(800)),
            Clamp(Coalesce(DeriveEffectiveTaxRate(annual), Milli(220)), 0, Milli(600)),
            Clamp(Coalesce(DeriveReinvestmentRate(annual, estimates), Milli(300)), 0, Milli(900)),
            BaseWacc,
            BaseTerminalGrowth)

\* The object "base".
BaseScenario(annual, estimates) ==
    LET baseGrowthY1to5  == BaseGrowthY1to5(annual, estimates)
        baseGrowthY6to10 == Mul(baseGrowthY1to5, Milli(600))
    IN  Scn(Clamp(baseGrowthY1to5, Milli(-500), Milli(600)),
            Clamp(baseGrowthY6to10, Milli(-500), Milli(400)),
            Clamp(BaseMargin(annual, estimates), 0, Milli(800)),
            Clamp(Coalesce(DeriveEffectiveTaxRate(annual), Milli(220)), 0, Milli(600)),
            Clamp(Coalesce(DeriveReinvestmentRate(annual, estimates), Milli(300)), 0, Milli(900)),
            BaseWacc,
            BaseTerminalGrowth)

\* A faulty "bull", which raises the tax rate instead of lowering it.
BullScenarioHigherTax(base) ==
    Scn(Clamp(Mul(base.revenueGrowthYears1to5, Milli(1250)), Milli(-500), Milli(600)),
        Clamp(Mul(base.revenueGrowthYears6to10, Milli(1250)), Milli(-500), Milli(400)),
        Clamp(Add(base.operatingMarginTarget, Milli(30)), 0, Milli(800)),
        Clamp(Add(base.taxRate, Milli(20)), 0, Milli(600)),
        Clamp(Sub(base.reinvestmentRate, Milli(50)), 0, Milli(900)),
        Clamp(Sub(base.wacc, Milli(10)), Milli(30), Milli(300)),
        Clamp(Add(base.terminalGrowth, Milli(5)), Milli(-20), Milli(60)))

\* The object "bull" as built, before the safety check.
BullScenario(base) ==
    Scn(Clamp(Mul(base.revenueGrowthYears1to5, Milli(1250)), Milli(-500), Milli(600)),
        Clamp(Mul(base.revenueGrowthYears6to10, Milli(1250)), Milli(-500), Milli(400)),
        Clamp(Add(base.operatingMarginTarget, Milli(30)), 0, Milli(800)),
        Clamp(Sub(base.taxRate, Milli(20)), 0, Milli(600)),
        Clamp(Sub(base.reinvestmentRate, Milli(50)), 0, Milli(900)),
        Clamp(Sub(base.wacc, Milli(10)), Milli(30), Milli(300)),
        Clamp(Add(base.terminalGrowth, Milli(5)), Milli(-20), Milli(60)))

\* A faulty "bear", which halves both growth phases.
BearScenarioHalvingBoth(base) ==
    Scn(Clamp(Mul(base.revenueGrowthYears1to5, Milli(500)), Milli(-500), Milli(600)),
        Clamp(Mul(base.revenueGrowthYears6to10, Milli(500)), Milli(-500), Milli(400)),
        Clamp(Sub(base.operatingMarginTarget, Milli(40)), 0, Milli(800)),
        Clamp(Add(base.taxRate, Milli(30)), 0, Milli(600)),
        Clamp(Add(base.reinvestmentRate, Milli(100)), 0, Milli(900)),
        Clamp(Add(base.wacc, Milli(15)), Milli(30), Milli(300)),
        Clamp(Sub(base.terminalGrowth, Milli(5)), Milli(-20), Milli(60)))

\* The object "bear" as built, before the safety check.
BearScenario(base) ==
    Scn(Clamp(Mul(base.revenueGrowthYears1to5, Milli(500)), Milli(-500), Milli(600)),
        Clamp(Mul(base.revenueGrowthYears6to10, Milli(400)), Milli(-500), Milli(400)),
        Clamp(Sub(base.operatingMarginTarget, Milli(40)), 0, Milli(800)),
        Clamp(Add(base.taxRate, Milli(30)), 0, Milli(600)),
        Clamp(Add(base.reinvestmentRate, Milli(100)), 0, Milli(900)),
        Clamp(Add(base.wacc, Milli(15)), Milli(30), Milli(300)),
        Clamp(Sub(base.terminalGrowth, Milli(5)), Milli(-20), Milli(60)))

\* The condition of the safety check on a scenario.
NeedsRepair(scenario) ==
    Le(scenario.wacc, scenario.terminalGrowth)

\* A faulty safety check, which rewrites terminalGrowth whatever the condition.
RepairAlways(scenario) ==
    [scenario EXCEPT !.terminalGrowth = Sub(scenario.wacc, Milli(10))]

\* "if (s.wacc <= s.terminalGrowth) s.terminalGrowth = s.wacc - 0.01"
Repair(scenario) ==
    IF NeedsRepair(scenario)
    THEN [scenario EXCEPT !.terminalGrowth = Sub(scenario.wacc, Milli(10))]
    ELSE scenario

\* Whether getCompanyScenarios throws.
CompanyScenariosThrow(annual, estimates) ==
    BaseGrowthY1to5(annual, estimates) = TypeErr

\* What getCompanyScenarios returns.
GetCompanyScenarios(annual, estimates) ==
    LET base == BaseScenario(annual, estimates)
    IN  [bull |-> Repair(BullScenario(base)),
         base |-> base,
         bear |-> Repair(BearScenario(base))]

\* No ScenariosInput: nothing has been returned.
NoScenario ==
    Scn(Null, Null, Null, Null, Null, Null, Null)

NoScenarios ==
    [bull |-> NoScenario, base |-> NoScenario, bear |-> NoScenario]

\* An AnnualFundamentalPoint, without the fields the valuation core never reads
\* (year, netMargin).
Point(rev, ebit, netIncome, fcf, operatingMargin) ==
    [revenue |-> rev, ebit |-> ebit, netIncome |-> netIncome, fcf |-> fcf,
     operatingMargin |-> operatingMargin]

\* An AnalystEstimates, without the fields the valuation core never reads
\* (earningsGrowthNextYear, targetMeanPrice, numberOfAnalysts).
NoEstimates ==
    [revenueGrowthNextYear |-> Null, revenueGrowth5Year |-> Null,
     operatingMargins |-> Null, revenueGrowthTTM |-> Null,
     freeCashflow |-> Null, totalRevenue |-> Null]

-----------------------------------------------------------------------------
(* State *)

VARIABLES
    callee,             \* the function the caller has called, or "none"
    pc,                 \* where the call is: "idle", "called", "project", "returned", "thrown"
    input,              \* the DcfInput of the call of runDcf (for a call of
                        \* validateScenarioInput, its scenario is the argument)
    year,               \* runDcf's loop variable
    revenue,            \* runDcf's local "revenue"
    discountedFcfSum,   \* runDcf's local "discountedFcfSum"
    result,             \* the ScenarioResult returned, or NoResult
    thrown,             \* the Error thrown, or NoError
    divisors,           \* the divisors of the divisions the call has made
    annual,             \* fundamentals.annual, newest point first
    estimates,          \* the AnalystEstimates
    scenarios,          \* the ScenariosInput returned, or NoScenarios
    memo,               \* an earlier call the caller remembers: what was passed
                        \* and what came back
    heap,               \* the ScenariosInput objects getDefaultScenarios has
                        \* created, by address; the caller holds them all
    defaultsRef,        \* the address getDefaultScenarios returned last, or 0
    attempt,            \* withRetry's loop variable
    invocations,        \* how many times withRetry has invoked its task
    outcomes,           \* what each invocation of the task settled with, in order
    waits,              \* the delays withRetry has passed to setTimeout, in ms
    lastError,          \* withRetry's local "lastError"
    settled,            \* what withRetry returned or threw, or Unsettled
    body,               \* the JSON body of the request to POST
    market,             \* what the three fetches of POST resolved with
    calls,              \* the functions POST has called, in order
    dcfResults,         \* POST's local "scenarios": the three ScenarioResults
    response            \* the response of POST, or NoResponse

vars ==
    <<callee, pc, input, year, revenue, discountedFcfSum, result, thrown, divisors,
      annual, estimates, scenarios, memo, heap, defaultsRef,
      attempt, invocations, outcomes, waits, lastError, settled,
      body, market, calls, dcfResults, response>>

\* The variables of a call of runDcf, and those of a call of getCompanyScenarios.
dcfVars ==
    <<input, year, revenue, discountedFcfSum, result, divisors>>

scenarioVars ==
    <<annual, estimates, scenarios>>

\* The variables of the calls of getDefaultScenarios.
presetVars ==
    <<heap, defaultsRef>>

\* The variables of a call of withRetry.
retryVars ==
    <<attempt, invocations, outcomes, waits, lastError, settled>>

\* The variables of a request to POST /api/valuation/[ticker].
routeVars ==
    <<body, market, calls, dcfResults, response>>

-----------------------------------------------------------------------------
(* Inputs *)

\* A DcfInput.
Dcf(currentRevenue, netDebt, sharesOutstanding, currentPrice, mosPercent, scenario) ==
    [currentRevenue |-> currentRevenue, netDebt |-> netDebt,
     sharesOutstanding |-> sharesOutstanding, currentPrice |-> currentPrice,
     mosPercent |-> mosPercent, scenario |-> scenario]

\* The scenario of __tests__/dcf.test.ts.
TestScenario ==
    Scn(Milli(80), Milli(50), Milli(200), Milli(220), Milli(350), Milli(100), Milli(25))

\* Scenarios validateScenarioInput accepts: both growth phases and the margin at
\* their bounds and inside, with four pairs of wacc and terminalGrowth, and the
\* tax and reinvestment rates at their bounds.
ValidScenarios ==
    { Scn(g1, g6, m, Milli(220), Milli(350), wt[1], wt[2]) :
        g1 \in {Milli(-500), Milli(80), Milli(600)},
        g6 \in {Milli(-500), Milli(50), Milli(400)},
        m  \in {0, Milli(200), Milli(800)},
        wt \in { <<Milli(100), Milli(25)>>, <<Milli(30), Milli(-20)>>,
                 <<Milli(30), Milli(29)>>, <<Milli(300), Milli(60)>> } }
    \cup
    { [TestScenario EXCEPT !.taxRate = t, !.reinvestmentRate = r] :
        t \in {0, Milli(600)}, r \in {0, Milli(900)} }

\* Scenarios validateScenarioInput rejects.
InvalidScenarios ==
    { [TestScenario EXCEPT !.wacc = Milli(30), !.terminalGrowth = Milli(40)],
      [TestScenario EXCEPT !.wacc = Milli(50), !.terminalGrowth = Milli(50)],
      [TestScenario EXCEPT !.revenueGrowthYears1to5 = Milli(601)],
      [TestScenario EXCEPT !.taxRate = Milli(-1)],
      [TestScenario EXCEPT !.wacc = Milli(20), !.terminalGrowth = Milli(70),
                           !.operatingMarginTarget = Milli(900)] }

\* The DcfInputs the caller passes to runDcf.
DcfInputs ==
    [ currentRevenue    : {Whole(-1), 0, Milli(1), Whole(1), Whole(100)},
      netDebt           : {Whole(-2), Whole(3)},
      sharesOutstanding : {0, Milli(500), Whole(2)},
      currentPrice      : {0, Whole(4)},
      mosPercent        : {Whole(-10), 0, Whole(80), Whole(120)},
      scenario          : ValidScenarios \cup InvalidScenarios ]

\* The value of "input" when runDcf is not the function called.
NoDcfInput ==
    Dcf(0, 0, 0, 0, 0, TestScenario)

\* What the caller keeps of a call: the function, its arguments, what it
\* returned or threw, and how many calls the caller has made since.
CallRecord(fn, in, a, e, res, scn, err, later) ==
    [callee |-> fn, input |-> in, annual |-> a, estimates |-> e,
     result |-> res, scenarios |-> scn, thrown |-> err, later |-> later]

NoMemo ==
    CallRecord("none", NoDcfInput, <<>>, NoEstimates, NoResult, NoScenarios, NoError, 0)

-----------------------------------------------------------------------------
(* runDcf *)

\* Nothing of getCompanyScenarios has run.
ScenariosIdle ==
    /\ annual = <<>>
    /\ estimates = NoEstimates
    /\ scenarios = NoScenarios

\* getDefaultScenarios has not been called: no object exists.
PresetsIdle ==
    /\ heap = <<>>
    /\ defaultsRef = 0

\* What a promise settles with, or a "throw" carries: a value, an instance of
\* Error with its message, or a thrown value that is no instance of Error.
Resolved(value) ==
    [tag |-> "value", text |-> value]

ErrorInstance(message) ==
    [tag |-> "Error", text |-> message]

ThrownValue(text) ==
    [tag |-> "other", text |-> text]

\* "let lastError: unknown;", and a call that has not settled.
Unsettled ==
    [tag |-> "undefined", text |-> ""]

\* withRetry has not been called.
RetryIdle ==
    /\ attempt = 0
    /\ invocations = 0
    /\ outcomes = <<>>
    /\ waits = <<>>
    /\ lastError = Unsettled
    /\ settled = Unsettled

\* No market data: none of the fetches has resolved.
NoMarket ==
    [quote |-> [regularMarketPrice |-> Null, sharesOutstanding |-> Null],
     annual |-> <<>>, netDebt |-> Null]

NoResults ==
    [bull |-> NoResult, base |-> NoResult, bear |-> NoResult]

NoBody ==
    [mosPercent |-> Null, sharesOutstandingOverride |-> Null, scenarios |-> NoScenarios]

\* POST has not been called.
RouteIdle ==
    /\ body = NoBody
    /\ market = NoMarket
    /\ calls = <<>>
    /\ dcfResults = NoResults
    /\ response = NoResponse

\* Nothing of runDcf has run: its locals hold nothing yet.
DcfIdle ==
    /\ year = 0
    /\ revenue = 0
    /\ discountedFcfSum = 0
    /\ result = NoResult
    /\ divisors = {}

\* runDcf has been called with any of DcfInputs, and nothing has run.
Init ==
    /\ callee = "runDcf"
    /\ pc = "called"
    /\ input \in DcfInputs
    /\ thrown = NoError
    /\ DcfIdle
    /\ ScenariosIdle
    /\ memo = NoMemo
    /\ PresetsIdle
    /\ RetryIdle
    /\ RouteIdle

\* A faulty runDcf, whose sum of discounted cash flows outlives the call: it is
\* not set to 0 when the call starts.
EnterRunDcfKeepingSum ==
    /\ callee = "runDcf"
    /\ pc = "called"
    /\ IF ValidateScenarioInput(input.scenario) # NoError
       THEN /\ thrown' = ValidateScenarioInput(input.scenario)
            /\ pc' = "thrown"
            /\ UNCHANGED <<year, revenue, discountedFcfSum>>
       ELSE IF MarketInputInvalid(input)
       THEN /\ thrown' = PositiveError
            /\ pc' = "thrown"
            /\ UNCHANGED <<year, revenue, discountedFcfSum>>
       ELSE /\ thrown' = NoError
            /\ pc' = "project"
            /\ revenue' = input.currentRevenue
            /\ year' = 1
            /\ UNCHANGED discountedFcfSum
    /\ UNCHANGED <<callee, input, result, divisors, memo>>
    /\ UNCHANGED scenarioVars
    /\ UNCHANGED presetVars
    /\ UNCHANGED retryVars
    /\ UNCHANGED routeVars

\* runDcf up to its loop: validateScenarioInput(input.scenario), the check of
\* the market inputs, and the loop's variables set up.
EnterRunDcf ==
    /\ callee = "runDcf"
    /\ pc = "called"
    /\ IF ValidateScenarioInput(input.scenario) # NoError
       THEN /\ thrown' = ValidateScenarioInput(input.scenario)
            /\ pc' = "thrown"
            /\ UNCHANGED <<year, revenue, discountedFcfSum>>
       ELSE IF MarketInputInvalid(input)
       THEN /\ thrown' = PositiveError
            /\ pc' = "thrown"
            /\ UNCHANGED <<year, revenue, discountedFcfSum>>
       ELSE /\ thrown' = NoError
            /\ pc' = "project"
            /\ revenue' = input.currentRevenue
            /\ discountedFcfSum' = 0
            /\ year' = 1
    /\ UNCHANGED <<callee, input, result, divisors, memo>>
    /\ UNCHANGED scenarioVars
    /\ UNCHANGED presetVars
    /\ UNCHANGED retryVars
    /\ UNCHANGED routeVars

\* One turn of the loop "for (let year = 1; year <= 10; year += 1)".
ProjectYear ==
    /\ pc = "project"
    /\ year <= ProjectionYears
    /\ LET grown == Mul(revenue, Add(Whole(1), GrowthOfYear(input.scenario, year)))
           fcf == FcfOf(grown, input.scenario)
           discountFactor == DiscountFactor(input.scenario, year)
       IN  /\ revenue' = grown
           /\ discountedFcfSum' = Add(discountedFcfSum, Div(fcf, discountFactor))
           /\ divisors' = divisors \cup {discountFactor}
    /\ year' = year + 1
    /\ UNCHANGED <<callee, pc, input, result, thrown, memo>>
    /\ UNCHANGED scenarioVars
    /\ UNCHANGED presetVars
    /\ UNCHANGED retryVars
    /\ UNCHANGED routeVars

\* The loop is over: steps 2 to 5, and the return.
ReturnResult ==
    /\ pc = "project"
    /\ year > ProjectionYears
    /\ result' = ResultOf(input, revenue, discountedFcfSum)
    /\ divisors' = divisors \cup FinalDivisors(input)
    /\ pc' = "returned"
    /\ UNCHANGED <<callee, input, year, revenue, discountedFcfSum, thrown, memo>>
    /\ UNCHANGED scenarioVars
    /\ UNCHANGED presetVars
    /\ UNCHANGED retryVars
    /\ UNCHANGED routeVars

RunDcfStep ==
    EnterRunDcf \/ ProjectYear \/ ReturnResult

Next ==
    RunDcfStep

Spec ==
    Init /\ [][Next]_vars

-----------------------------------------------------------------------------
(* validateScenarioInput, called on its own *)

\* Each field below its range, on each bound and above its range; wacc and
\* terminalGrowth also at a common value inside both ranges.
BoundaryScenarios ==
    { Scn(g1, g6, m, t, r, w, tg) :
        g1 \in {Milli(-501), Milli(-500), Milli(600), Milli(601)},
        g6 \in {Milli(-501), Milli(-500), Milli(400), Milli(401)},
        m  \in {Milli(-1), 0, Milli(800), Milli(801)},
        t  \in {Milli(-1), 0, Milli(600), Milli(601)},
        r  \in {Milli(-1), 0, Milli(900), Milli(901)},
        w  \in {Milli(29), Milli(30), Milli(50), Milli(300), Milli(301)},
        tg \in {Milli(-21), Milli(-20), Milli(50), Milli(60), Milli(61)} }

InitValidate ==
    /\ callee = "validateScenarioInput"
    /\ pc = "called"
    /\ input \in { Dcf(0, 0, 0, 0, 0, s) : s \in BoundaryScenarios }
    /\ thrown = NoError
    /\ DcfIdle
    /\ ScenariosIdle
    /\ memo = NoMemo
    /\ PresetsIdle
    /\ RetryIdle
    /\ RouteIdle

\* validateScenarioInput(input.scenario) runs.
CallValidate ==
    /\ callee = "validateScenarioInput"
    /\ pc = "called"
    /\ thrown' = ValidateScenarioInput(input.scenario)
    /\ pc' = IF ValidateScenarioInput(input.scenario) = NoError THEN "returned" ELSE "thrown"
    /\ UNCHANGED <<callee, memo>>
    /\ UNCHANGED dcfVars
    /\ UNCHANGED scenarioVars
    /\ UNCHANGED presetVars
    /\ UNCHANGED retryVars
    /\ UNCHANGED routeVars

NextValidate ==
    CallValidate

SpecValidate ==
    InitValidate /\ [][NextValidate]_vars

-----------------------------------------------------------------------------
(* getCompanyScenarios *)

\* Longest fundamentals list of the model.
MaxPoints ==
    3

\* Annual points: two profitable years, a loss year, a year without revenue,
\* and a small company whose margin, tax and cash flow are all beyond the clamps.
Points ==
    { Point(Whole(391), Whole(123), Whole(94), Whole(109), Milli(315)),
      Point(Whole(366), Whole(119), Whole(100), Whole(60), Milli(327)),
      Point(Whole(50), Whole(-5), Whole(-8), 0, Milli(-100)),
      Point(0, 0, 0, 0, 0),
      Point(Whole(1), Milli(900), Milli(100), Whole(-2), Milli(900)) }

AnnualLists ==
    UNION { [1..n -> Points] : n \in 0..MaxPoints }

\* The estimates: every combination of the growth estimates and the margin,
\* without the cash-flow estimates; and every combination of the margin and
\* the cash-flow estimates, with and without a growth estimate.  The growth
\* chain never reads freeCashflow or totalRevenue.
EstimatesPool ==
    [ revenueGrowth5Year    : {Null, 0, Milli(100), Milli(-900), Whole(1)},
      revenueGrowthNextYear : {Null, Milli(80)},
      revenueGrowthTTM      : {Null, Milli(20)},
      operatingMargins      : {Null, Milli(315), Milli(-50)},
      freeCashflow          : {Null},
      totalRevenue          : {Null} ]
    \cup
    [ revenueGrowth5Year    : {Null, Milli(100)},
      revenueGrowthNextYear : {Null},
      revenueGrowthTTM      : {Null},
      operatingMargins      : {Null, Milli(315), Milli(-50)},
      freeCashflow          : {Null, Whole(60), Whole(109)},
      totalRevenue          : {Null, Whole(391)} ]

TypeError ==
    Thrown("TypeError", 0, 0)

InitScenarios ==
    /\ callee = "getCompanyScenarios"
    /\ pc = "called"
    /\ annual \in AnnualLists
    /\ estimates \in EstimatesPool
    /\ scenarios = NoScenarios
    /\ input = NoDcfInput
    /\ thrown = NoError
    /\ DcfIdle
    /\ memo = NoMemo
    /\ PresetsIdle
    /\ RetryIdle
    /\ RouteIdle

\* getCompanyScenarios({annual}, estimates) runs.
CallGetCompanyScenarios ==
    /\ callee = "getCompanyScenarios"
    /\ pc = "called"
    /\ IF CompanyScenariosThrow(annual, estimates)
       THEN /\ thrown' = TypeError
            /\ pc' = "thrown"
            /\ UNCHANGED scenarios
       ELSE /\ scenarios' = GetCompanyScenarios(annual, estimates)
            /\ pc' = "returned"
            /\ UNCHANGED thrown
    /\ UNCHANGED <<callee, annual, estimates, memo>>
    /\ UNCHANGED dcfVars
    /\ UNCHANGED presetVars
    /\ UNCHANGED retryVars
    /\ UNCHANGED routeVars

NextScenarios ==
    CallGetCompanyScenarios

SpecScenarios ==
    InitScenarios /\ [][NextScenarios]_vars

-----------------------------------------------------------------------------
(* A caller that makes one call after another *)

\* The DcfInputs and the fundamentals of the caller that calls repeatedly.
RepeatedDcfInputs ==
    { Dcf(rev, Whole(3), Whole(2), Whole(4), mos, s) :
        rev \in {Whole(1), Whole(100)},
        mos \in {0, Whole(25), Whole(80)},
        s   \in {TestScenario,
                 Scn(Milli(600), Milli(400), 0, Milli(220), Milli(350), Milli(30), Milli(29))} }
    \cup
    { Dcf(0, Whole(3), Whole(2), Whole(4), 0, TestScenario) }

RepeatedAnnualLists ==
    { <<>>,
      <<Point(Whole(391), Whole(123), Whole(94), Whole(109), Milli(315))>>,
      <<Point(Whole(391), Whole(123), Whole(94), Whole(109), Milli(315)),
        Point(Whole(366), Whole(119), Whole(100), Whole(111), Milli(327)),
        Point(Whole(1), Milli(900), Milli(100), Whole(-2), Milli(900))>> }

\* The estimates of the caller that calls repeatedly.
RepeatedEstimates ==
    { NoEstimates,
      [NoEstimates EXCEPT !.revenueGrowth5Year = Whole(1),
                          !.operatingMargins = Milli(315)] }

\* The calls after a remembered call are counted up to here.
MaxLater ==
    2

\* The call that has just ended, as the caller may remember it while it makes
\* the next call.
EndedCall ==
    CallRecord(callee, input, annual, estimates, result, scenarios, thrown, 1)

\* What the caller remembered before, one more call later.
OlderMemo ==
    IF memo.callee = "none" THEN memo
    ELSE [memo EXCEPT !.later = IF @ < MaxLater THEN @ + 1 ELSE @]

\* Whether the caller is between two calls.
BetweenCalls ==
    pc \in {"idle", "returned", "thrown"}

\* The caller either keeps what it remembers, or remembers the call that ended.
Remember ==
    memo' \in (IF pc = "idle" THEN {memo} ELSE {OlderMemo, EndedCall})

InitCalls ==
    /\ callee = "none"
    /\ pc = "idle"
    /\ input = NoDcfInput
    /\ thrown = NoError
    /\ DcfIdle
    /\ ScenariosIdle
    /\ memo = NoMemo
    /\ PresetsIdle
    /\ RetryIdle
    /\ RouteIdle

\* The caller calls runDcf(in).  The locals of the last run are still in memory.
CallRunDcf(in) ==
    /\ BetweenCalls
    /\ callee' = "runDcf"
    /\ pc' = "called"
    /\ input' = in
    /\ result' = NoResult
    /\ thrown' = NoError
    /\ divisors' = {}
    /\ Remember
    /\ UNCHANGED <<year, revenue, discountedFcfSum>>
    /\ UNCHANGED scenarioVars
    /\ UNCHANGED presetVars
    /\ UNCHANGED retryVars
    /\ UNCHANGED routeVars

\* The caller calls getCompanyScenarios({annual: a}, e).
CallScenarios(a, e) ==
    /\ BetweenCalls
    /\ callee' = "getCompanyScenarios"
    /\ pc' = "called"
    /\ annual' = a
    /\ estimates' = e
    /\ scenarios' = NoScenarios
    /\ thrown' = NoError
    /\ Remember
    /\ UNCHANGED dcfVars
    /\ UNCHANGED presetVars
    /\ UNCHANGED retryVars
    /\ UNCHANGED routeVars

NextCalls ==
    \/ \E in \in RepeatedDcfInputs : CallRunDcf(in)
    \/ \E a \in RepeatedAnnualLists, e \in RepeatedEstimates : CallScenarios(a, e)
    \/ RunDcfStep
    \/ CallGetCompanyScenarios

SpecCalls ==
    InitCalls /\ [][NextCalls]_vars

-----------------------------------------------------------------------------
(* getDefaultScenarios, and a caller that writes into what it was given *)

\* The most objects the model lets getDefaultScenarios create.
MaxObjects ==
    3

\* The properties the caller overwrites, and the values it writes.
WrittenProperties ==
    { <<"bull", "wacc">>, <<"base", "revenueGrowthYears1to5">> }

WrittenValues ==
    {0, Whole(1)}

InitDefaults ==
    /\ callee = "none"
    /\ pc = "idle"
    /\ input = NoDcfInput
    /\ thrown = NoError
    /\ DcfIdle
    /\ ScenariosIdle
    /\ memo = NoMemo
    /\ PresetsIdle
    /\ RetryIdle
    /\ RouteIdle

\* A faulty getDefaultScenarios, which builds its object once and returns the
\* same object at every call.
CallGetDefaultScenariosShared ==
    /\ pc \in {"idle", "returned"}
    /\ Len(heap) < MaxObjects
    /\ callee' = "getDefaultScenarios"
    /\ pc' = "returned"
    /\ heap' = IF heap = <<>> THEN <<GetDefaultScenarios>> ELSE heap
    /\ defaultsRef' = 1
    /\ UNCHANGED <<input, thrown, memo>>
    /\ UNCHANGED dcfVars
    /\ UNCHANGED scenarioVars
    /\ UNCHANGED retryVars
    /\ UNCHANGED routeVars

\* getDefaultScenarios(): the literal is evaluated, which creates a new object,
\* and the new object is returned.
CallGetDefaultScenarios ==
    /\ pc \in {"idle", "returned"}
    /\ Len(heap) < MaxObjects
    /\ callee' = "getDefaultScenarios"
    /\ pc' = "returned"
    /\ heap' = Append(heap, GetDefaultScenarios)
    /\ defaultsRef' = Len(heap) + 1
    /\ UNCHANGED <<input, thrown, memo>>
    /\ UNCHANGED dcfVars
    /\ UNCHANGED scenarioVars
    /\ UNCHANGED retryVars
    /\ UNCHANGED routeVars

\* The caller overwrites a property of a set it was given earlier.
WriteIntoReturnedSet(ref, property, value) ==
    /\ pc \in {"idle", "returned"}
    /\ ref \in 1..Len(heap)
    /\ heap' = [heap EXCEPT ![ref][property[1]][property[2]] = value]
    /\ pc' = "idle"
    /\ UNCHANGED <<callee, input, thrown, memo, defaultsRef>>
    /\ UNCHANGED dcfVars
    /\ UNCHANGED scenarioVars
    /\ UNCHANGED retryVars
    /\ UNCHANGED routeVars

NextDefaults ==
    \/ CallGetDefaultScenarios
    \/ \E ref \in 1..MaxObjects, property \in WrittenProperties, value \in WrittenValues :
           WriteIntoReturnedSet(ref, property, value)

SpecDefaults ==
    InitDefaults /\ [][NextDefaults]_vars

-----------------------------------------------------------------------------
(* POST /api/valuation/[ticker] *)

\* A scenario without operating margin: its enterprise value is 0, and the
\* fair value per share is -netDebt / sharesOutstanding.
ZeroMarginScenario ==
    [TestScenario EXCEPT !.operatingMarginTarget = 0]

\* The strongest growth and margin the schema accepts.
BoomScenario ==
    Scn(Milli(600), Milli(400), Milli(800), 0, 0, Milli(100), Milli(25))

\* The "scenarios" of the bodies: sets the schema accepts, with different bull
\* and bear around the same base; a bull the schema accepts and runDcf rejects
\* (wacc below terminalGrowth); a base with a field out of range; and a body
\* without "bear".
BodyScenarios ==
    { [bull |-> TestScenario, base |-> ZeroMarginScenario, bear |-> ZeroMarginScenario],
      [bull |-> BoomScenario, base |-> ZeroMarginScenario, bear |-> TestScenario],
      [bull |-> BoomScenario, base |-> TestScenario, bear |-> ZeroMarginScenario],
      [bull |-> [TestScenario EXCEPT !.wacc = Milli(30), !.terminalGrowth = Milli(40)],
       base |-> TestScenario, bear |-> TestScenario],
      [bull |-> TestScenario, base |-> [TestScenario EXCEPT !.taxRate = Milli(-1)],
       bear |-> TestScenario],
      [bull |-> TestScenario, base |-> TestScenario, bear |-> NoScenario] }

\* The bodies of the requests: every margin of safety and every override on
\* one set of scenarios, and every set of scenarios with and without a margin
\* and an override that the schema accepts.
Bodies ==
    [ mosPercent : {Whole(-1), 0, Whole(80), Whole(81)},
      sharesOutstandingOverride : {Null, Whole(-1), 0, Whole(2)},
      scenarios : {[bull |-> TestScenario, base |-> ZeroMarginScenario,
                    bear |-> ZeroMarginScenario]} ]
    \cup
    [ mosPercent : {0, Whole(80)},
      sharesOutstandingOverride : {Null, Whole(2)},
      scenarios : BodyScenarios ]

\* The quotes of Yahoo: with and without a market price, and with a number of
\* shares that is missing, zero or positive.
RawQuotes ==
    [ regularMarketPrice : {Null, Whole(1)},
      sharesOutstanding  : {Null, 0, Whole(2)} ]

\* The fundamentals: no annual point, a point without revenue, and two points
\* with revenue (the larger overflows under the strongest growth).
RouteAnnualLists ==
    { <<>>, <<Point(0, 0, 0, 0, 0)>>,
      <<Point(Whole(1), Milli(900), Milli(100), Whole(-2), Milli(900))>>,
      <<Point(Whole(100), Whole(30), Whole(20), Whole(10), Milli(300))>> }

\* The net debts: net cash that puts the upside of a zero-margin base, with 2
\* shares at a price of 1, on and next to the two thresholds, and a net debt.
NetDebts ==
    {Milli(-2302), Milli(-2300), Milli(-1700), Milli(-1698), Whole(3)}

\* What the three fetches resolve with.
MarketData ==
    { [quote |-> QuoteOf(raw), annual |-> a, netDebt |-> nd] :
        raw \in RawQuotes, a \in RouteAnnualLists, nd \in NetDebts }

\* The errors getQuote, getFundamentals and getNetDebtEstimate throw.
FetchErrors ==
    { Thrown(RateLimitMessage, 0, 0), Thrown(TickerNotFoundMessage, 0, 0) }

\* A request has arrived, with any of the bodies.
InitRoute ==
    /\ callee = "POST"
    /\ pc = "called"
    /\ body \in Bodies
    /\ market = NoMarket
    /\ calls = <<>>
    /\ dcfResults = NoResults
    /\ response = NoResponse
    /\ input = NoDcfInput
    /\ thrown = NoError
    /\ DcfIdle
    /\ ScenariosIdle
    /\ memo = NoMemo
    /\ PresetsIdle
    /\ RetryIdle

\* POST parses the body; a ZodError is answered with 400, and otherwise the
\* three fetches are started.
ParseAndFetch ==
    /\ callee = "POST"
    /\ pc = "called"
    /\ IF RequestSchema(body)
       THEN /\ calls' = calls \o <<"getQuote", "getFundamentals", "getNetDebtEstimate">>
            /\ pc' = "fetching"
            /\ UNCHANGED response
       ELSE /\ response' = Response(400, Thrown("Invalid valuation payload.", 0, 0), "")
            /\ pc' = "responded"
            /\ UNCHANGED calls
    /\ UNCHANGED <<callee, input, thrown, memo, body, market, dcfResults>>
    /\ UNCHANGED <<year, revenue, discountedFcfSum, result, divisors>>
    /\ UNCHANGED scenarioVars
    /\ UNCHANGED presetVars
    /\ UNCHANGED retryVars

\* One of the three fetches rejects: the catch block answers.
FetchFails(error) ==
    /\ callee = "POST"
    /\ pc = "fetching"
    /\ response' = ErrorResponse(error)
    /\ pc' = "responded"
    /\ UNCHANGED <<callee, input, thrown, memo, body, market, calls, dcfResults>>
    /\ UNCHANGED <<year, revenue, discountedFcfSum, result, divisors>>
    /\ UNCHANGED scenarioVars
    /\ UNCHANGED presetVars
    /\ UNCHANGED retryVars

\* The three fetches resolve, and the rest of the handler runs: the two guards
\* on the data, the three calls of runDcf, the sanity check and the response.
MarketDataArrives(fetched) ==
    /\ callee = "POST"
    /\ pc = "fetching"
    /\ market' = fetched
    /\ pc' = "responded"
    /\ LET shares == SharesOutstandingOf(body, fetched.quote)
       IN  IF fetched.annual = <<>> \/ Le(fetched.annual[1].revenue, 0)
           THEN /\ response' = Response(422, Thrown("Missing revenue data for valuation.", 0, 0), "")
                /\ UNCHANGED <<calls, dcfResults>>
           ELSE IF shares \in {Null, NaN, 0} \/ Le(shares, 0)
           THEN /\ response' = Response(422, Thrown("Missing shares outstanding.", 0, 0), "")
                /\ UNCHANGED <<calls, dcfResults>>
           ELSE /\ calls' = calls \o [i \in 1..RunDcfCalls(body, fetched) |-> "runDcf"]
                /\ IF RunDcfThrown(body, fetched) # NoError
                   THEN /\ response' = ErrorResponse(RunDcfThrown(body, fetched))
                        /\ UNCHANGED dcfResults
                   ELSE /\ dcfResults' = RouteResults(body, fetched)
                        /\ response' =
                               IF SanityCheck(RouteResults(body, fetched), 1) # NoResponse
                               THEN SanityCheck(RouteResults(body, fetched), 1)
                               ELSE Response(200, NoError,
                                             GetStatus(RouteResults(body, fetched)
                                                           .base.upsideVsPricePercent))
    /\ UNCHANGED <<callee, input, thrown, memo, body>>
    /\ UNCHANGED <<year, revenue, discountedFcfSum, result, divisors>>
    /\ UNCHANGED scenarioVars
    /\ UNCHANGED presetVars
    /\ UNCHANGED retryVars

NextRoute ==
    \/ ParseAndFetch
    \/ \E error \in FetchErrors : FetchFails(error)
    \/ \E fetched \in MarketData : MarketDataArrives(fetched)

SpecRoute ==
    InitRoute /\ [][NextRoute]_vars

-----------------------------------------------------------------------------
(* withRetry, around a task that resolves or rejects *)

\* "retries = 2", the default every caller relies on.
DefaultRetries ==
    2

\* The unit of the backoff, in milliseconds.
BackoffMs ==
    250

\* What the task resolves with, and what it rejects with: two instances of
\* Error, and two thrown values that are no instance of Error.
TaskValues ==
    {"quote", "summary"}

TaskErrors ==
    { ErrorInstance("Too Many Requests"), ErrorInstance("Not Found"),
      ThrownValue("timeout"), ThrownValue("") }

\* "new Error("Unknown Yahoo Finance error.")"
UnknownYahooError ==
    ErrorInstance("Unknown Yahoo Finance error.")

\* withRetry(task) has been called, with the default retries.
InitRetry ==
    /\ callee = "withRetry"
    /\ pc = "attempt"
    /\ input = NoDcfInput
    /\ thrown = NoError
    /\ DcfIdle
    /\ ScenariosIdle
    /\ memo = NoMemo
    /\ PresetsIdle
    /\ RetryIdle
    /\ RouteIdle

\* "task()": the loop invokes the task and awaits it.
InvokeTask ==
    /\ callee = "withRetry"
    /\ pc = "attempt"
    /\ attempt <= DefaultRetries
    /\ invocations' = invocations + 1
    /\ pc' = "pending"
    /\ UNCHANGED <<callee, input, thrown, memo, attempt, outcomes, waits, lastError, settled>>
    /\ UNCHANGED <<year, revenue, discountedFcfSum, result, divisors>>
    /\ UNCHANGED scenarioVars
    /\ UNCHANGED presetVars
    /\ UNCHANGED routeVars

\* The task resolves: "return await task()".
TaskResolves(value) ==
    /\ callee = "withRetry"
    /\ pc = "pending"
    /\ outcomes' = Append(outcomes, Resolved(value))
    /\ settled' = Resolved(value)
    /\ pc' = "returned"
    /\ UNCHANGED <<callee, input, thrown, memo, attempt, invocations, waits, lastError>>
    /\ UNCHANGED <<year, revenue, discountedFcfSum, result, divisors>>
    /\ UNCHANGED scenarioVars
    /\ UNCHANGED presetVars
    /\ UNCHANGED routeVars

\* A faulty catch block, which sets the timer after every failure.
TaskRejectsAlwaysWaiting(error) ==
    /\ callee = "withRetry"
    /\ pc = "pending"
    /\ outcomes' = Append(outcomes, error)
    /\ lastError' = error
    /\ waits' = Append(waits, BackoffMs * (attempt + 1))
    /\ pc' = "waiting"
    /\ UNCHANGED <<attempt, settled>>
    /\ UNCHANGED <<callee, input, thrown, memo, invocations>>
    /\ UNCHANGED <<year, revenue, discountedFcfSum, result, divisors>>
    /\ UNCHANGED scenarioVars
    /\ UNCHANGED presetVars
    /\ UNCHANGED routeVars

\* The task rejects: the catch block keeps the error and, when an attempt is
\* left, sets the timer; after the last attempt the loop ends and the
\* function throws.
TaskRejects(error) ==
    /\ callee = "withRetry"
    /\ pc = "pending"
    /\ outcomes' = Append(outcomes, error)
    /\ lastError' = error
    /\ IF attempt < DefaultRetries
       THEN /\ waits' = Append(waits, BackoffMs * (attempt + 1))
            /\ pc' = "waiting"
            /\ UNCHANGED <<attempt, settled>>
       ELSE /\ attempt' = attempt + 1
            /\ settled' = (IF error.tag = "Error" THEN error ELSE UnknownYahooError)
            /\ pc' = "thrown"
            /\ UNCHANGED waits
    /\ UNCHANGED <<callee, input, thrown, memo, invocations>>
    /\ UNCHANGED <<year, revenue, discountedFcfSum, result, divisors>>
    /\ UNCHANGED scenarioVars
    /\ UNCHANGED presetVars
    /\ UNCHANGED routeVars

\* The timer fires: "attempt += 1", and the loop goes on.
TimerFires ==
    /\ callee = "withRetry"
    /\ pc = "waiting"
    /\ attempt' = attempt + 1
    /\ pc' = "attempt"
    /\ UNCHANGED <<callee, input, thrown, memo, invocations, outcomes, waits, lastError,
                   settled>>
    /\ UNCHANGED <<year, revenue, discountedFcfSum, result, divisors>>
    /\ UNCHANGED scenarioVars
    /\ UNCHANGED presetVars
    /\ UNCHANGED routeVars

NextRetry ==
    \/ InvokeTask
    \/ \E value \in TaskValues : TaskResolves(value)
    \/ \E error \in TaskErrors : TaskRejects(error)
    \/ TimerFires

SpecRetry ==
    InitRetry /\ [][NextRetry]_vars

-----------------------------------------------------------------------------
(* Properties of getCompanyScenarios, under SpecScenarios *)

\* The closed ranges the DCF engine accepts, field by field.
EngineRange ==
    [revenueGrowthYears1to5  |-> <<Milli(-500), Milli(600)>>,
     revenueGrowthYears6to10 |-> <<Milli(-500), Milli(400)>>,
     operatingMarginTarget   |-> <<0, Milli(800)>>,
     taxRate                 |-> <<0, Milli(600)>>,
     reinvestmentRate        |-> <<0, Milli(900)>>,
     wacc                    |-> <<Milli(30), Milli(300)>>,
     terminalGrowth          |-> <<Milli(-20), Milli(60)>>]

\* Every field of a scenario is a number inside its engine range.
InEngineRange(scenario) ==
    \A f \in ScenarioFields :
        /\ Le(EngineRange[f][1], scenario[f])
        /\ Le(scenario[f], EngineRange[f][2])

ScenarioNames ==
    {"bull", "base", "bear"}

\* getCompanyScenarios has returned its three scenarios.
ScenariosReturned ==
    callee = "getCompanyScenarios" /\ pc = "returned"

\* C1: for every fundamentals list and every estimates record, each field of
\* each of the three scenarios getCompanyScenarios returns lies in the range the
\* engine accepts for it: growth 1-5 in [-0.5, 0.6], growth 6-10 in [-0.5, 0.4],
\* margin in [0, 0.8], tax in [0, 0.6], reinvestment in [0, 0.9], wacc in
\* [0.03, 0.3], terminal growth in [-0.02, 0.06].
C1_EveryFieldInEngineRange ==
    ScenariosReturned =>
        \A n \in ScenarioNames : InEngineRange(scenarios[n])

\* C1's case: an estimate of 100% growth, far above the range, was clamped to
\* the bound 0.6 of the base scenario, and the bull scenario sits on it too.
C1_ClampedAtBound ==
    /\ ScenariosReturned
    /\ estimates.revenueGrowth5Year = Whole(1)
    /\ scenarios.base.revenueGrowthYears1to5 = Milli(600)
    /\ scenarios.bull.revenueGrowthYears1to5 = Milli(600)

\* C2: in each of the three scenarios returned, wacc is strictly greater than
\* terminalGrowth, so validateScenarioInput's first check passes on each.
C2_WaccAboveTerminalGrowth ==
    ScenariosReturned =>
        \A n \in ScenarioNames :
            /\ Gt(scenarios[n].wacc, scenarios[n].terminalGrowth)
            /\ ValidateScenarioInput(scenarios[n]) # WaccError

\* C2's case: the bull scenario, whose wacc is lowered and whose terminal
\* growth is raised, built from a list of three points.
C2_BullReturned ==
    /\ ScenariosReturned
    /\ Len(annual) = MaxPoints
    /\ Lt(scenarios.bull.wacc, scenarios.base.wacc)
    /\ Gt(scenarios.bull.terminalGrowth, scenarios.base.terminalGrowth)

\* No source of the fallback chain of a field has a value.
NoGrowthSource ==
    /\ estimates.revenueGrowth5Year = Null
    /\ estimates.revenueGrowthNextYear = Null
    /\ estimates.revenueGrowthTTM = Null
    /\ \/ Len(annual) < 2
       \/ annual[1].revenue <= 0
       \/ annual[Len(annual)].revenue <= 0

NoMarginSource ==
    estimates.operatingMargins = Null /\ annual = <<>>

NoTaxSource ==
    \A i \in 1..Len(annual) : annual[i].ebit <= 0 \/ annual[i].netIncome <= 0

NoReinvestmentSource ==
    /\ \/ estimates.freeCashflow = Null
       \/ estimates.totalRevenue = Null
       \/ estimates.operatingMargins = Null
       \/ Mul(estimates.totalRevenue, estimates.operatingMargins) <= 0
    /\ \A i \in 1..Len(annual) : annual[i].ebit <= 0 \/ annual[i].fcf = 0

\* C3: getCompanyScenarios is total.  Whatever the list (empty, of one point,
\* or longer) and whatever estimates are null, the call returns three scenarios
\* and throws nothing; a fallback chain none of whose sources has a value ends in
\* its literal: growth 0.05, margin 0.18, tax 0.22, reinvestment 0.30.
C3_TotalWithLiteralDefaults ==
    (callee = "getCompanyScenarios" /\ pc # "called") =>
        /\ pc = "returned"
        /\ thrown = NoError
        /\ \A n \in ScenarioNames :
               \A f \in ScenarioFields : IsFinite(scenarios[n][f])
        /\ NoGrowthSource => scenarios.base.revenueGrowthYears1to5 = Milli(50)
        /\ NoMarginSource => scenarios.base.operatingMarginTarget = Milli(180)
        /\ NoTaxSource => scenarios.base.taxRate = Milli(220)
        /\ NoReinvestmentSource => scenarios.base.reinvestmentRate = Milli(300)

\* C3's case: the empty list with every estimate null; the base scenario is
\* made of the literals alone.
C3_EmptyListAllNull ==
    /\ ScenariosReturned
    /\ annual = <<>>
    /\ estimates = NoEstimates
    /\ scenarios.base = Scn(Milli(50), Milli(30), Milli(180), Milli(220), Milli(300),
                            Milli(95), Milli(25))

-----------------------------------------------------------------------------
(* Properties of validateScenarioInput, under SpecValidate *)

\* validateScenarioInput has ended, by returning or by throwing.
ValidateEnded ==
    callee = "validateScenarioInput" /\ pc # "called"

\* What the claims call a valid scenario: wacc above terminalGrowth and every
\* field inside its closed range.
ValidScenario(scenario) ==
    Gt(scenario.wacc, scenario.terminalGrowth) /\ InEngineRange(scenario)

\* C4: validateScenarioInput raises "WACC must be greater than terminal
\* growth." whenever wacc <= terminalGrowth, whatever the other fields are and
\* whether or not they are in range: the relation is checked before any range.
C4_WaccErrorBeforeRanges ==
    (ValidateEnded /\ input.scenario.wacc <= input.scenario.terminalGrowth) =>
        (pc = "thrown" /\ thrown = WaccError)

\* C4's case: wacc equals terminalGrowth while the first row of the table is
\* out of range, and the error thrown is the WACC one.
C4_WaccErrorWithFieldOutOfRange ==
    /\ ValidateEnded
    /\ input.scenario.wacc = input.scenario.terminalGrowth
    /\ input.scenario.revenueGrowthYears1to5 = Milli(601)
    /\ thrown = WaccError

\* C5: validateScenarioInput returns without error exactly when wacc >
\* terminalGrowth and every one of the seven fields lies in its closed range,
\* the bounds themselves accepted; otherwise it throws.
C5_AcceptsExactlyValidScenarios ==
    ValidateEnded =>
        /\ (pc = "returned" /\ thrown = NoError) <=> ValidScenario(input.scenario)
        /\ pc = "returned" \/ (pc = "thrown" /\ thrown # NoError)

\* C5's case: a scenario with every field on a bound of its range is accepted.
C5_AcceptedOnTheBounds ==
    /\ ValidateEnded
    /\ pc = "returned"
    /\ input.scenario = Scn(Milli(600), Milli(-500), 0, Milli(600), Milli(900),
                            Milli(30), Milli(-20))

-----------------------------------------------------------------------------
(* Properties of runDcf, under Spec *)

\* runDcf has ended, by returning or by throwing.
RunDcfEnded ==
    callee = "runDcf" /\ pc \in {"returned", "thrown"}

\* One of the three market inputs is zero or negative.
NonPositiveMarketInput ==
    \/ input.currentRevenue <= 0
    \/ input.sharesOutstanding <= 0
    \/ input.currentPrice <= 0

\* C6: runDcf raises "Revenue, shares outstanding, and current price must be
\* positive." exactly when the scenario passes validateScenarioInput and one of
\* currentRevenue, sharesOutstanding, currentPrice is <= 0; with a scenario that
\* fails validation the scenario's error is raised instead, the scenario being
\* validated first; in both failing cases no result is returned.
C6_PositiveErrorAfterValidation ==
    (callee = "runDcf" /\ pc # "called") =>
        /\ (thrown = PositiveError) <=>
               (ValidScenario(input.scenario) /\ NonPositiveMarketInput)
        /\ ~ValidScenario(input.scenario) =>
               /\ pc = "thrown"
               /\ thrown = (IF input.scenario.wacc <= input.scenario.terminalGrowth
                            THEN WaccError
                            ELSE ValidateScenarioInput(input.scenario))
               /\ thrown \notin {NoError, PositiveError}
        /\ thrown # NoError => (pc = "thrown" /\ result = NoResult)
        /\ pc = "returned" => (thrown = NoError /\ result # NoResult)

\* C6's case: a valid scenario with zero shares outstanding, the other market
\* inputs positive; the call threw the "must be positive" error.
C6_ZeroSharesRejected ==
    /\ RunDcfEnded
    /\ ValidScenario(input.scenario)
    /\ input.sharesOutstanding = 0
    /\ input.currentRevenue > 0
    /\ input.currentPrice > 0
    /\ thrown = PositiveError
    /\ result = NoResult

\* The input is one runDcf accepts.
AcceptedInput ==
    ValidScenario(input.scenario) /\ ~NonPositiveMarketInput

\* The reference model of the projection: revenue, free cash flow and the sum
\* of the discounted free cash flows of the years 1..y.
RECURSIVE RefRevenue(_, _)
RefRevenue(in, y) ==
    IF y = 0 THEN in.currentRevenue
    ELSE Mul(RefRevenue(in, y - 1),
             Add(Whole(1), IF y <= 5 THEN in.scenario.revenueGrowthYears1to5
                           ELSE in.scenario.revenueGrowthYears6to10))

RefFcf(in, y) ==
    Mul(Mul(Mul(RefRevenue(in, y), in.scenario.operatingMarginTarget),
            Sub(Whole(1), in.scenario.taxRate)),
        Sub(Whole(1), in.scenario.reinvestmentRate))

RECURSIVE RefDiscountedSum(_, _)
RefDiscountedSum(in, y) ==
    IF y = 0 THEN 0
    ELSE Add(RefDiscountedSum(in, y - 1),
             Div(RefFcf(in, y), Pow(Add(Whole(1), in.scenario.wacc), y)))

RefEnterpriseValue(in) ==
    Add(RefDiscountedSum(in, 10),
        Div(Div(Mul(RefFcf(in, 10), Add(Whole(1), in.scenario.terminalGrowth)),
                Sub(in.scenario.wacc, in.scenario.terminalGrowth)),
            Pow(Add(Whole(1), in.scenario.wacc), 10)))

\* C8: for every accepted input the result of runDcf equals the reference
\* model: revenue grows by revenueGrowthYears1to5 in the years 1 to 5 (year 5
\* included) and by revenueGrowthYears6to10 in the years 6 to 10; fcf_y =
\* revenue_y * margin * (1 - tax) * (1 - reinvestment); enterpriseValue is the
\* sum of fcf_y / (1 + wacc)^y over the ten years plus the discounted Gordon
\* terminal value; equityValue = enterpriseValue - netDebt; fairValuePerShare =
\* equityValue / sharesOutstanding; upsideVsPricePercent = (fairValueAfterMos -
\* currentPrice) / currentPrice * 100.  While the loop runs, its two variables
\* hold the reference values of the years done.
C8_ResultEqualsReferenceModel ==
    (callee = "runDcf" /\ AcceptedInput) =>
        /\ pc = "project" =>
               /\ revenue = RefRevenue(input, year - 1)
               /\ discountedFcfSum = RefDiscountedSum(input, year - 1)
        /\ pc = "returned" =>
               /\ result.enterpriseValue = RefEnterpriseValue(input)
               /\ result.equityValue = Sub(RefEnterpriseValue(input), input.netDebt)
               /\ result.fairValuePerShare =
                      Div(Sub(RefEnterpriseValue(input), input.netDebt),
                          input.sharesOutstanding)
               /\ result.upsideVsPricePercent =
                      Mul(Div(Sub(result.fairValueAfterMos, input.currentPrice),
                              input.currentPrice), Whole(100))

\* C8's case: a run whose two growth phases differ has returned a finite,
\* positive enterprise value.
C8_TwoPhaseRunReturned ==
    /\ callee = "runDcf"
    /\ pc = "returned"
    /\ input.scenario.revenueGrowthYears1to5 # input.scenario.revenueGrowthYears6to10
    /\ IsFinite(result.enterpriseValue)
    /\ result.enterpriseValue > 0
    /\ result.enterpriseValue = RefEnterpriseValue(input)

\* The magnitudes of the input leave the projection inside the range of the
\* finite numbers: 100 * currentRevenue / (wacc - terminalGrowth) + |netDebt| is
\* finite, and there is at least one share.
ModerateMagnitude(in) ==
    /\ IsFinite(Add(Div(Mul(Whole(100), in.currentRevenue),
                        Sub(in.scenario.wacc, in.scenario.terminalGrowth)),
                    Abs(in.netDebt)))
    /\ in.sharesOutstanding >= Whole(1)

\* C9, as stated: for every accepted input runDcf returns, no divisor is zero,
\* and fairValuePerShare is a finite number.
C9_FairValueAlwaysFinite ==
    (callee = "runDcf" /\ pc # "called" /\ AcceptedInput) =>
        /\ pc \in {"project", "returned"}
        /\ \A d \in divisors : Gt(d, 0)
        /\ pc = "returned" => IsFinite(result.fairValuePerShare)

\* C9, amended: every divisor of every division runDcf makes is strictly
\* positive (wacc - terminalGrowth, (1 + wacc)^year, sharesOutstanding, 100,
\* currentPrice), every accepted input leads to a returned result, and
\* fairValuePerShare is a finite number when the magnitudes of the input are
\* moderate; for larger inputs the projection may overflow.
C9_PositiveDivisorsFiniteWhenModerate ==
    callee = "runDcf" =>
        /\ \A d \in divisors : Gt(d, 0)
        /\ (pc # "called" /\ AcceptedInput) => pc \in {"project", "returned"}
        /\ pc = "returned" =>
               /\ {TerminalDivisor(input.scenario), input.sharesOutstanding,
                   input.currentPrice} \subseteq divisors
               /\ ModerateMagnitude(input) => IsFinite(result.fairValuePerShare)

\* C9's case: the strongest growth the engine accepts, on an input of moderate
\* magnitude; the run returned a finite fair value.
C9_ModerateRunReturned ==
    /\ callee = "runDcf"
    /\ pc = "returned"
    /\ AcceptedInput
    /\ ModerateMagnitude(input)
    /\ input.scenario.revenueGrowthYears1to5 = Milli(600)
    /\ input.scenario.revenueGrowthYears6to10 = Milli(400)
    /\ input.scenario.operatingMarginTarget = Milli(800)
    /\ IsFinite(result.fairValuePerShare)

-----------------------------------------------------------------------------
(* Properties of repeated calls, under SpecCalls *)

\* The caller remembers a run of runDcf that returned, on the input of the run
\* that has just returned but for mosPercent.
RememberedRunDiffersInMosOnly ==
    /\ callee = "runDcf"
    /\ pc = "returned"
    /\ memo.callee = "runDcf"
    /\ memo.result # NoResult
    /\ memo.input = [input EXCEPT !.mosPercent = memo.input.mosPercent]

\* C7: for every accepted input and every mosPercent in [0, 80],
\* fairValueAfterMos = fairValuePerShare * (1 - mosPercent / 100); two runs that
\* differ only in mosPercent return the same enterpriseValue, equityValue and
\* fairValuePerShare, so the result with margin m is the zero-margin
\* fairValuePerShare times (1 - m / 100).
C7_MarginOfSafetyScalesFairValue ==
    (callee = "runDcf" /\ pc = "returned") =>
        /\ input.mosPercent \in 0..Whole(80)
        /\ result.fairValueAfterMos =
               Mul(result.fairValuePerShare,
                   Sub(Whole(1), Div(input.mosPercent, Whole(100))))
        /\ RememberedRunDiffersInMosOnly =>
               /\ memo.result.enterpriseValue = result.enterpriseValue
               /\ memo.result.equityValue = result.equityValue
               /\ memo.result.fairValuePerShare = result.fairValuePerShare
               /\ memo.input.mosPercent = 0 =>
                      result.fairValueAfterMos =
                          Mul(memo.result.fairValuePerShare,
                              Sub(Whole(1), Div(input.mosPercent, Whole(100))))

\* C7's case: a run with a margin of 80% has returned after a remembered run
\* on the same input with a margin of 0, and the margin lowered a finite fair
\* value.
C7_MarginAfterZeroMarginRun ==
    /\ RememberedRunDiffersInMosOnly
    /\ memo.input.mosPercent = 0
    /\ input.mosPercent = Whole(80)
    /\ IsFinite(result.fairValuePerShare)
    /\ result.fairValuePerShare > 0
    /\ result.fairValueAfterMos < result.fairValuePerShare

\* The call that has just ended has the arguments of the call remembered.
SameCallRemembered ==
    /\ pc \in {"returned", "thrown"}
    /\ memo.callee = callee
    /\ callee = "runDcf" => memo.input = input
    /\ callee = "getCompanyScenarios" =>
           (memo.annual = annual /\ memo.estimates = estimates)

\* Equal inputs gave equal outputs.
EqualOutputs ==
    /\ memo.thrown = thrown
    /\ callee = "runDcf" => memo.result = result
    /\ callee = "getCompanyScenarios" => memo.scenarios = scenarios

\* A step of a call, from its start to its end, leaves its arguments as they are.
ArgumentsKept ==
    pc \in {"called", "project"} =>
        /\ input' = input
        /\ annual' = annual
        /\ estimates' = estimates

-----------------------------------------------------------------------------
(* Properties of the base scenario of getCompanyScenarios, under SpecScenarios *)

\* A value brought into a closed range, as the claims state it.
ClampedTo(x, lo, hi) ==
    IF Lt(x, lo) THEN lo ELSE IF Gt(x, hi) THEN hi ELSE x

\* The historical CAGR is available: at least two points, and the newest and
\* the oldest revenue both positive.
CagrAvailable ==
    /\ Len(annual) >= 2
    /\ annual[1].revenue > 0
    /\ annual[Len(annual)].revenue > 0

\* The first available source of the base growth, in the order of C12.
FirstAvailableGrowth ==
    IF estimates.revenueGrowth5Year # Null THEN estimates.revenueGrowth5Year
    ELSE IF estimates.revenueGrowthNextYear # Null THEN estimates.revenueGrowthNextYear
    ELSE IF CagrAvailable THEN ComputeRevenueCAGR(annual)
    ELSE IF estimates.revenueGrowthTTM # Null THEN estimates.revenueGrowthTTM
    ELSE Milli(50)

FirstAvailableMargin ==
    IF estimates.operatingMargins # Null THEN estimates.operatingMargins
    ELSE IF Len(annual) >= 1 THEN annual[1].operatingMargin
    ELSE IF Len(annual) >= 3
         THEN Div(Add(Add(annual[1].operatingMargin, annual[2].operatingMargin),
                      annual[3].operatingMargin), Whole(3))
    ELSE Milli(180)

\* C13: the base operating margin, before the clamp, is the first available of
\* estimates.operatingMargins, the operatingMargin of the most recent point,
\* the average operatingMargin of the three most recent points (when there are
\* three), and 0.18.  With null estimates and one point,
\* base.operatingMarginTarget is that point's margin clamped to [0, 0.8].
C13_MarginIsFirstAvailableSource ==
    ScenariosReturned =>
        /\ scenarios.base.operatingMarginTarget =
               ClampedTo(FirstAvailableMargin, 0, Milli(800))
        /\ (Len(annual) = 1 /\ estimates = NoEstimates) =>
               scenarios.base.operatingMarginTarget =
                   ClampedTo(annual[1].operatingMargin, 0, Milli(800))

\* C13's case: no margin estimate, and three points whose latest margin is not
\* their average; the base margin is the latest margin.
C13_LatestMarginUsed ==
    /\ ScenariosReturned
    /\ estimates.operatingMargins = Null
    /\ Len(annual) = 3
    /\ annual[1].operatingMargin = Milli(315)
    /\ annual[2].operatingMargin = Milli(-100)
    /\ scenarios.base.operatingMarginTarget = Milli(315)

\* The point at index i has ebit > 0 and netIncome > 0.
TaxQualifies(i) ==
    annual[i].ebit > 0 /\ annual[i].netIncome > 0

\* The first index of the list, newest first, that satisfies Q.
FirstIndex(Q(_)) ==
    CHOOSE i \in 1..Len(annual) : Q(i) /\ \A j \in 1..(i - 1) : ~Q(j)

\* The tax rate C14 states.
StatedTaxRate ==
    IF \E i \in 1..Len(annual) : TaxQualifies(i)
    THEN LET point == annual[FirstIndex(TaxQualifies)]
         IN  ClampedTo(Sub(Whole(1), Div(point.netIncome, point.ebit)),
                       Milli(100), Milli(400))
    ELSE Milli(220)

\* C14: base.taxRate is clamp(1 - netIncome / ebit, 0.10, 0.40) of the first
\* point, newest first, with ebit > 0 and netIncome > 0: points that fail the
\* test are skipped and later qualifying points are ignored; when no point
\* qualifies it is 0.22.
C14_TaxRateOfFirstProfitablePoint ==
    ScenariosReturned => scenarios.base.taxRate = StatedTaxRate

\* C14's case: the newest point is a loss and is skipped, the second and the
\* third qualify with different rates, and the rate is the second point's.
C14_LossSkippedLaterPointIgnored ==
    /\ ScenariosReturned
    /\ Len(annual) = 3
    /\ ~TaxQualifies(1)
    /\ TaxQualifies(2)
    /\ TaxQualifies(3)
    /\ scenarios.base.taxRate = Milli(160)
    /\ annual[3].netIncome = Whole(94)

\* currentNopat as C15 states it, from three estimates that are not null.
StatedCurrentNopat ==
    Mul(Mul(estimates.totalRevenue, estimates.operatingMargins),
        Sub(Whole(1), StatedTaxRate))

\* The estimate-based derivation of the reinvestment rate applies.
EstimateBasedApplies ==
    /\ estimates.freeCashflow # Null
    /\ estimates.totalRevenue # Null
    /\ estimates.operatingMargins # Null
    /\ Gt(StatedCurrentNopat, 0)

\* C15: when freeCashflow, totalRevenue and operatingMargins are not null and
\* currentNopat = totalRevenue * operatingMargins * (1 - t) is positive, with t
\* the derived tax rate or 0.22, base.reinvestmentRate is clamp(1 -
\* freeCashflow / currentNopat, 0.05, 0.70), whatever the historical points
\* hold; when freeCashflow >= currentNopat it is exactly the floor 0.05.
C15_ReinvestmentFromEstimates ==
    (ScenariosReturned /\ EstimateBasedApplies) =>
        /\ scenarios.base.reinvestmentRate =
               ClampedTo(Sub(Whole(1), Div(estimates.freeCashflow, StatedCurrentNopat)),
                         Milli(50), Milli(700))
        /\ estimates.freeCashflow >= StatedCurrentNopat =>
               scenarios.base.reinvestmentRate = Milli(50)

\* C15's case: the estimates give a rate strictly between the floor and the
\* cap, while the newest point alone would give the cap.
C15_EstimatesBeatHistory ==
    /\ ScenariosReturned
    /\ EstimateBasedApplies
    /\ Len(annual) >= 1
    /\ annual[1].fcf = Whole(-2)
    /\ scenarios.base.reinvestmentRate > Milli(50)
    /\ scenarios.base.reinvestmentRate < Milli(700)

\* nopat of the point at index i as C16 states it.
StatedPointNopat(i) ==
    Mul(annual[i].ebit,
        Sub(Whole(1), IF TaxQualifies(i)
                      THEN Sub(Whole(1), Div(annual[i].netIncome, annual[i].ebit))
                      ELSE Milli(220)))

\* The point at index i has nopat > 0 and fcf # 0.
ReinvestmentQualifies(i) ==
    Gt(StatedPointNopat(i), 0) /\ annual[i].fcf # 0

\* C16: when the estimate-based derivation does not apply,
\* base.reinvestmentRate is clamp(1 - fcf / nopat, 0.05, 0.70) of the first
\* point, newest first, with nopat > 0 and fcf # 0, where nopat = ebit * (1 -
\* implied tax) and the implied tax is 1 - netIncome / ebit for a point with
\* ebit > 0 and netIncome > 0, else 0.22; when no point qualifies it is 0.30.
C16_ReinvestmentFromHistory ==
    (ScenariosReturned /\ ~EstimateBasedApplies) =>
        scenarios.base.reinvestmentRate =
            (IF \E i \in 1..Len(annual) : ReinvestmentQualifies(i)
             THEN LET i == FirstIndex(ReinvestmentQualifies)
                  IN  ClampedTo(Sub(Whole(1), Div(annual[i].fcf, StatedPointNopat(i))),
                                Milli(50), Milli(700))
             ELSE Milli(300))

\* C16's case: a negative margin estimate makes currentNopat negative, the
\* newest point is a loss and is skipped, and the second point gives a rate
\* strictly inside the range.
C16_SecondPointUsed ==
    /\ ScenariosReturned
    /\ estimates.freeCashflow # Null
    /\ estimates.totalRevenue # Null
    /\ estimates.operatingMargins = Milli(-50)
    /\ Len(annual) >= 2
    /\ ~ReinvestmentQualifies(1)
    /\ ReinvestmentQualifies(2)
    /\ scenarios.base.reinvestmentRate = Milli(400)

\* C17, as stated: in every output, base.revenueGrowthYears6to10 is
\* base.revenueGrowthYears1to5 * 0.6.
C17_FadeOfEmittedGrowth ==
    ScenariosReturned =>
        scenarios.base.revenueGrowthYears6to10 =
            Mul(scenarios.base.revenueGrowthYears1to5, Milli(600))

\* C17, amended: base.revenueGrowthYears6to10 is the unclamped base growth
\* times 0.6, clamped to [-0.5, 0.4]; it is base.revenueGrowthYears1to5 * 0.6
\* when the unclamped base growth lies in [-0.5, 0.6], where no clamp acts.
C17_FadeOfUnclampedGrowth ==
    ScenariosReturned =>
        /\ scenarios.base.revenueGrowthYears6to10 =
               ClampedTo(Mul(FirstAvailableGrowth, Milli(600)), Milli(-500), Milli(400))
        /\ (Le(Milli(-500), FirstAvailableGrowth) /\ Le(FirstAvailableGrowth, Milli(600))) =>
               scenarios.base.revenueGrowthYears6to10 =
                   Mul(scenarios.base.revenueGrowthYears1to5, Milli(600))

\* C17's case: an estimate of 100% growth; the growth of the years 1-5 is
\* clamped to 0.6 and that of the years 6-10 to 0.4, which is not 0.36.
C17_BothPhasesClamped ==
    /\ ScenariosReturned
    /\ FirstAvailableGrowth = Whole(1)
    /\ scenarios.base.revenueGrowthYears1to5 = Milli(600)
    /\ scenarios.base.revenueGrowthYears6to10 = Milli(400)

\* C18: each field of bull and bear is the stated adjustment of the emitted
\* base field, clamped to the field's engine range: bull = growth1to5 * 1.25,
\* growth6to10 * 1.25, margin + 0.03, taxRate - 0.02, reinvestmentRate - 0.05,
\* wacc - 0.01, terminalGrowth + 0.005; bear = growth1to5 * 0.5, growth6to10 *
\* 0.4, margin - 0.04, taxRate + 0.03, reinvestmentRate + 0.10, wacc + 0.015,
\* terminalGrowth - 0.005.
C18_BullAndBearAdjustBase ==
    ScenariosReturned =>
        LET base == scenarios.base
            InRangeOf(f, x) == ClampedTo(x, EngineRange[f][1], EngineRange[f][2])
        IN  /\ scenarios.bull =
                   [revenueGrowthYears1to5 |->
                        InRangeOf("revenueGrowthYears1to5",
                                  Mul(base.revenueGrowthYears1to5, Milli(1250))),
                    revenueGrowthYears6to10 |->
                        InRangeOf("revenueGrowthYears6to10",
                                  Mul(base.revenueGrowthYears6to10, Milli(1250))),
                    operatingMarginTarget |->
                        InRangeOf("operatingMarginTarget",
                                  Add(base.operatingMarginTarget, Milli(30))),
                    taxRate |-> InRangeOf("taxRate", Sub(base.taxRate, Milli(20))),
                    reinvestmentRate |->
                        InRangeOf("reinvestmentRate", Sub(base.reinvestmentRate, Milli(50))),
                    wacc |-> InRangeOf("wacc", Sub(base.wacc, Milli(10))),
                    terminalGrowth |->
                        InRangeOf("terminalGrowth", Add(base.terminalGrowth, Milli(5)))]
            /\ scenarios.bear =
                   [revenueGrowthYears1to5 |->
                        InRangeOf("revenueGrowthYears1to5",
                                  Mul(base.revenueGrowthYears1to5, Milli(500))),
                    revenueGrowthYears6to10 |->
                        InRangeOf("revenueGrowthYears6to10",
                                  Mul(base.revenueGrowthYears6to10, Milli(400))),
                    operatingMarginTarget |->
                        InRangeOf("operatingMarginTarget",
                                  Sub(base.operatingMarginTarget, Milli(40))),
                    taxRate |-> InRangeOf("taxRate", Add(base.taxRate, Milli(30))),
                    reinvestmentRate |->
                        InRangeOf("reinvestmentRate", Add(base.reinvestmentRate, Milli(100))),
                    wacc |-> InRangeOf("wacc", Add(base.wacc, Milli(15))),
                    terminalGrowth |->
                        InRangeOf("terminalGrowth", Sub(base.terminalGrowth, Milli(5)))]

\* C18's case: a base growth of 10% and 6%; bull has 12.5% and 7.5%, bear 5%
\* and 2.4%.
C18_AdjustedFromTenPercent ==
    /\ ScenariosReturned
    /\ scenarios.base.revenueGrowthYears1to5 = Milli(100)
    /\ scenarios.base.revenueGrowthYears6to10 = Milli(60)
    /\ scenarios.bull.revenueGrowthYears1to5 = Milli(125)
    /\ scenarios.bull.revenueGrowthYears6to10 = Milli(75)
    /\ scenarios.bear.revenueGrowthYears1to5 = Milli(50)
    /\ scenarios.bear.revenueGrowthYears6to10 = Milli(24)

\* C19: in every output growth is ordered bull >= base >= bear, in both
\* phases.
C19_GrowthOrdered ==
    ScenariosReturned =>
        /\ scenarios.bull.revenueGrowthYears1to5 >= scenarios.base.revenueGrowthYears1to5
        /\ scenarios.base.revenueGrowthYears1to5 >= scenarios.bear.revenueGrowthYears1to5
        /\ scenarios.bull.revenueGrowthYears6to10 >= scenarios.base.revenueGrowthYears6to10
        /\ scenarios.base.revenueGrowthYears6to10 >= scenarios.bear.revenueGrowthYears6to10

\* C19's failing case: no estimates and a revenue that shrank from 391 to 366;
\* the base growth is negative, bull is below base and bear above it.
C19_ShrinkingRevenueInvertsOrder ==
    /\ ScenariosReturned
    /\ estimates = NoEstimates
    /\ Len(annual) = 2
    /\ annual[1].revenue = Whole(366)
    /\ annual[2].revenue = Whole(391)
    /\ scenarios.base.revenueGrowthYears1to5 < 0
    /\ scenarios.bull.revenueGrowthYears1to5 < scenarios.base.revenueGrowthYears1to5
    /\ scenarios.bear.revenueGrowthYears1to5 > scenarios.base.revenueGrowthYears1to5

\* C20: in every output bull.operatingMarginTarget >= base >= bear, bull.wacc
\* <= base <= bear, bull.taxRate <= base <= bear and bull.reinvestmentRate <=
\* base <= bear.
C20_MarginAndRatesOrdered ==
    ScenariosReturned =>
        /\ scenarios.bull.operatingMarginTarget >= scenarios.base.operatingMarginTarget
        /\ scenarios.base.operatingMarginTarget >= scenarios.bear.operatingMarginTarget
        /\ \A f \in {"wacc", "taxRate", "reinvestmentRate"} :
               /\ scenarios.bull[f] <= scenarios.base[f]
               /\ scenarios.base[f] <= scenarios.bear[f]

\* C20's case: a base margin clamped to the bound 0.8, which bull cannot
\* exceed, and a base tax rate at its cap 0.4, which bull lowers.
C20_OrderedAtTheBounds ==
    /\ ScenariosReturned
    /\ scenarios.base.operatingMarginTarget = Milli(800)
    /\ scenarios.bull.operatingMarginTarget = Milli(800)
    /\ scenarios.bear.operatingMarginTarget = Milli(760)
    /\ scenarios.base.taxRate = Milli(400)
    /\ scenarios.bull.taxRate = Milli(380)

-----------------------------------------------------------------------------
(* Properties of getDefaultScenarios, under SpecDefaults *)

\* getDefaultScenarios has just returned the object at defaultsRef.
DefaultsReturned ==
    callee = "getDefaultScenarios" /\ pc = "returned"

\* C11: every call of getDefaultScenarios returns exactly the literals bull
\* {0.12, 0.08, 0.22, 0.20, 0.30, 0.085, 0.03}, base {0.08, 0.05, 0.18, 0.22,
\* 0.35, 0.095, 0.025}, bear {0.04, 0.02, 0.14, 0.25, 0.40, 0.11, 0.02}, with
\* bull.wacc < base.wacc < bear.wacc, whatever calls came before and whatever
\* the caller wrote into the sets returned before: each call returns an object
\* that did not exist before the call.
C11_DefaultsAreFreshLiterals ==
    DefaultsReturned =>
        /\ defaultsRef = Len(heap)
        /\ heap[defaultsRef].bull =
               Scn(Milli(120), Milli(80), Milli(220), Milli(200), Milli(300),
                   Milli(85), Milli(30))
        /\ heap[defaultsRef].base =
               Scn(Milli(80), Milli(50), Milli(180), Milli(220), Milli(350),
                   Milli(95), Milli(25))
        /\ heap[defaultsRef].bear =
               Scn(Milli(40), Milli(20), Milli(140), Milli(250), Milli(400),
                   Milli(110), Milli(20))
        /\ heap[defaultsRef].bull.wacc < heap[defaultsRef].base.wacc
        /\ heap[defaultsRef].base.wacc < heap[defaultsRef].bear.wacc

\* C11's case: a call has returned after the caller overwrote bull.wacc in the
\* set returned by the first call.
C11_ReturnedAfterCallerWrote ==
    /\ DefaultsReturned
    /\ defaultsRef >= 2
    /\ heap[1].bull.wacc = Whole(1)
    /\ heap[defaultsRef].bull.wacc = Milli(85)

-----------------------------------------------------------------------------
(* The order of the errors of validateScenarioInput, under SpecValidate *)

\* The fields in the order C21 states, and the label of each in its error.
StatedFieldOrder ==
    << "revenueGrowthYears1to5", "revenueGrowthYears6to10", "operatingMarginTarget",
       "taxRate", "reinvestmentRate", "wacc", "terminalGrowth" >>

StatedLabel ==
    [revenueGrowthYears1to5  |-> "Revenue growth years 1-5",
     revenueGrowthYears6to10 |-> "Revenue growth years 6-10",
     operatingMarginTarget   |-> "Operating margin target",
     taxRate                 |-> "Tax rate",
     reinvestmentRate        |-> "Reinvestment rate",
     wacc                    |-> "WACC",
     terminalGrowth          |-> "Terminal growth"]

\* The field at position k of the order lies outside its range.
FieldOutOfRange(scenario, k) ==
    LET f == StatedFieldOrder[k]
    IN  scenario[f] < EngineRange[f][1] \/ scenario[f] > EngineRange[f][2]

\* C21: validateScenarioInput fails fast in a fixed order: with wacc >
\* terminalGrowth and one or more fields out of range, the one error raised
\* names the first field out of range in the order growth 1-5, growth 6-10,
\* margin, tax rate, reinvestment rate, WACC, terminal growth, with the bounds
\* of that field.
C21_FirstFieldOutOfRangeNamed ==
    (ValidateEnded /\ input.scenario.wacc > input.scenario.terminalGrowth) =>
        \A k \in 1..Len(StatedFieldOrder) :
            (FieldOutOfRange(input.scenario, k)
               /\ \A j \in 1..(k - 1) : ~FieldOutOfRange(input.scenario, j)) =>
                /\ pc = "thrown"
                /\ thrown = [error |-> StatedLabel[StatedFieldOrder[k]],
                             min |-> EngineRange[StatedFieldOrder[k]][1],
                             max |-> EngineRange[StatedFieldOrder[k]][2]]

\* C21's case: growth 6-10, the tax rate and terminal growth are all out of
\* range while growth 1-5 is not, and the error names growth 6-10.
C21_SeveralOutOfRange ==
    /\ ValidateEnded
    /\ input.scenario.wacc > input.scenario.terminalGrowth
    /\ ~FieldOutOfRange(input.scenario, 1)
    /\ FieldOutOfRange(input.scenario, 2)
    /\ FieldOutOfRange(input.scenario, 4)
    /\ FieldOutOfRange(input.scenario, 7)
    /\ thrown = [error |-> "Revenue growth years 6-10", min |-> Milli(-500),
                 max |-> Milli(400)]

-----------------------------------------------------------------------------
(* Constant and derived rates of getCompanyScenarios, under SpecScenarios *)

C26_AverageMarginNeverSelected ==
    ScenariosReturned =>
        /\ Len(annual) >= 3 => annual[1].operatingMargin # Null
        /\ Len(annual) < 3 => AvgMargin3yr(annual) = Null
        /\ estimates.operatingMargins = Null =>
               /\ BaseMargin(annual, estimates) =
                      (IF Len(annual) >= 1 THEN annual[1].operatingMargin ELSE Milli(180))
               /\ scenarios.base.operatingMarginTarget =
                      (IF Len(annual) >= 1
                       THEN ClampedTo(annual[1].operatingMargin, 0, Milli(800))
                       ELSE Milli(180))

\* C26's case: no margin estimate and three points whose average margin is
\* computed and differs from the latest margin; the latest margin is selected.
C26_AverageComputedLatestSelected ==
    /\ ScenariosReturned
    /\ estimates.operatingMargins = Null
    /\ Len(annual) = 3
    /\ AvgMargin3yr(annual) \notin {Null, annual[1].operatingMargin}
    /\ annual[1].operatingMargin = Milli(327)
    /\ scenarios.base.operatingMarginTarget = Milli(327)

-----------------------------------------------------------------------------
(* Signs of the projection and the unchecked margin of safety, under Spec *)

\* The revenue stays inside the range of the finite, nonzero numbers over the
\* ten years: currentRevenue * 57 (more than 1.6^5 * 1.4^5) is finite and
\* currentRevenue / 1024 (0.5^10) is not zero.
RevenueInRange(in) ==
    /\ IsFinite(Mul(in.currentRevenue, Whole(57)))
    /\ Gt(Div(in.currentRevenue, Whole(1024)), 0)

\* The terminal value of step 2, before it is discounted.
TerminalValueOf(rev, scenario) ==
    Div(Mul(FcfOf(rev, scenario), Add(Whole(1), scenario.terminalGrowth)),
        TerminalDivisor(scenario))

\* fairValuePerShare is negative only when netDebt > enterpriseValue.
NegativeOnlyByNetDebt ==
    (callee = "runDcf" /\ pc = "returned" /\ Lt(result.fairValuePerShare, 0)) =>
        Gt(input.netDebt, result.enterpriseValue)

C29_MosPercentUnchecked ==
    (callee = "runDcf" /\ pc \in {"returned", "thrown"}) =>
        /\ AcceptedInput <=> pc = "returned"
        /\ pc = "thrown" => thrown \in {WaccError, PositiveError}
                               \cup {RangeError(Bounded(input.scenario)[k]) : k \in 1..7}
        /\ pc = "returned" =>
               result.fairValueAfterMos =
                   Mul(result.fairValuePerShare,
                       Sub(Whole(1), Div(input.mosPercent, Whole(100))))

\* C29's case: a margin of safety of 120% on a positive fair value returned a
\* negative fairValueAfterMos.
C29_MarginAboveHundredReturned ==
    /\ callee = "runDcf"
    /\ pc = "returned"
    /\ input.mosPercent = Whole(120)
    /\ IsFinite(result.fairValuePerShare)
    /\ Gt(result.fairValuePerShare, 0)
    /\ Lt(result.fairValueAfterMos, 0)

-----------------------------------------------------------------------------
(* Properties of withRetry, under SpecRetry *)

\* The invocations that have failed so far.
FailuresSoFar ==
    Cardinality({k \in 1..Len(outcomes) : outcomes[k].tag # "value"})

\* The attempts, the order and the waits of withRetry as C24 states them: at
\* most 3 invocations, one at a time; a success ends the call with its value
\* and nothing is invoked after it; the k-th failure is followed by a wait of
\* 250 ms * k when it is the first or the second, and by none when it is the
\* third; the call throws exactly when three invocations have failed.
AttemptsAndWaitsAsStated ==
    /\ invocations <= 3
    /\ invocations - Len(outcomes) = (IF pc = "pending" THEN 1 ELSE 0)
    /\ \A k \in 1..(Len(outcomes) - 1) : outcomes[k].tag # "value"
    /\ pc = "returned" <=> (outcomes # <<>> /\ outcomes[Len(outcomes)].tag = "value")
    /\ pc = "returned" => settled = outcomes[Len(outcomes)]
    /\ waits = [k \in 1..(IF FailuresSoFar < 3 THEN FailuresSoFar ELSE 2) |-> 250 * k]
    /\ pc = "waiting" => Len(waits) = Len(outcomes)
    /\ pc = "thrown" <=> FailuresSoFar = 3
    /\ pc \in {"returned", "thrown"} <=> settled # Unsettled

-----------------------------------------------------------------------------
(* Properties of POST /api/valuation/[ticker], under SpecRoute *)

\* POST has answered with 200.
Answered200 ==
    callee = "POST" /\ pc = "responded" /\ response.status = 200

\* C22: the status is classified from the upsideVsPricePercent of the base
\* scenario only: "undervalued" when it is > 15, "overvalued" when it is < -15,
\* "fair" otherwise, so exactly 15 and exactly -15 are "fair"; the results of
\* bull and bear never change the status.
C22_StatusFromBaseUpside ==
    Answered200 =>
        LET upside == RunDcf(RouteDcfInput(body, market, "base")).result.upsideVsPricePercent
        IN  /\ dcfResults.base.upsideVsPricePercent = upside
            /\ response.summaryStatus = "undervalued" <=> Gt(upside, Whole(15))
            /\ response.summaryStatus = "overvalued" <=> Lt(upside, Whole(-15))
            /\ response.summaryStatus = "fair" <=>
                   (Le(Whole(-15), upside) /\ Le(upside, Whole(15)))
            /\ upside \in {Whole(15), Whole(-15)} => response.summaryStatus = "fair"

\* C22's case: the upside of base is exactly 15 and that of bull is above 15;
\* the status is "fair".
C22_FairAtFifteenDespiteBull ==
    /\ Answered200
    /\ dcfResults.base.upsideVsPricePercent = Whole(15)
    /\ Gt(dcfResults.bull.upsideVsPricePercent, Whole(15))
    /\ dcfResults.bear.upsideVsPricePercent # dcfResults.base.upsideVsPricePercent
    /\ response.summaryStatus = "fair"

\* A scenario of the body is present with every field in its range.
StatedScenarioValid(scenario) ==
    \A f \in ScenarioFields :
        /\ scenario[f] # Null
        /\ scenario[f] >= EngineRange[f][1]
        /\ scenario[f] <= EngineRange[f][2]

\* The body passes the schema as C23 states it.
StatedBodyValid ==
    /\ body.mosPercent >= 0 /\ body.mosPercent <= Whole(80)
    /\ body.sharesOutstandingOverride = Null \/ body.sharesOutstandingOverride > 0
    /\ \A name \in ScenarioNames : StatedScenarioValid(body.scenarios[name])

\* C23: POST checks the body against the schema before any market data is
\* fetched: a body that fails the schema (a scenario field out of range,
\* mosPercent outside [0, 80], a sharesOutstandingOverride that is not
\* positive, a missing scenario) is answered with 400, without a call of
\* getQuote, getFundamentals, getNetDebtEstimate or runDcf.
C23_SchemaBeforeFetch ==
    (callee = "POST" /\ ~StatedBodyValid) =>
        /\ calls = <<>>
        /\ market = NoMarket
        /\ dcfResults = NoResults
        /\ pc # "called" => (pc = "responded" /\ response.status = 400)

\* C23's case: a body whose only fault is a mosPercent of 81 was answered with
\* 400, and nothing was called.
C23_MarginAboveEightyRejected ==
    /\ callee = "POST"
    /\ pc = "responded"
    /\ body.mosPercent = Whole(81)
    /\ body.sharesOutstandingOverride = Null
    /\ response.status = 400
    /\ calls = <<>>

\* POST has called runDcf.
RunDcfCalled ==
    \E i \in 1..Len(calls) : calls[i] = "runDcf"

\* The market data fetched lack the revenue, the shares or the price.
MarketDataMissing ==
    \/ market.annual = <<>>
    \/ market.annual[1].revenue <= 0
    \/ SharesOutstandingOf(body, market.quote) = Null
    \/ SharesOutstandingOf(body, market.quote) <= 0
    \/ market.quote.regularMarketPrice <= 0

\* C30: POST guards every precondition of runDcf on the market inputs before
\* it calls runDcf, and answers missing data with 422: runDcf is invoked only
\* with currentRevenue > 0, sharesOutstanding > 0 and currentPrice > 0, so its
\* "must be positive" error does not occur in the route.
C30_MarketInputsGuarded ==
    (callee = "POST" /\ pc = "responded" /\ market # NoMarket) =>
        /\ RunDcfCalled => ~MarketDataMissing
        /\ MarketDataMissing => response.status = 422
        /\ response.error # PositiveError

\* C30's case: the quote carries no market price; runDcf was called with
\* currentPrice = 0 and its error was answered with 400.
C30_MissingPriceReachesRunDcf ==
    /\ callee = "POST"
    /\ pc = "responded"
    /\ market.annual # <<>>
    /\ market.quote.regularMarketPrice = 0
    /\ calls = <<"getQuote", "getFundamentals", "getNetDebtEstimate", "runDcf">>
    /\ response = Response(400, PositiveError, "")

=============================================================================
